---- MODULE Spec2Model ----
(***************************************************************************)
(* Model of the ControlPlane reconciler's owned-resource management        *)
(* (controller/controlplane/controller_reconciler_utils.go).               *)
(*                                                                         *)
(* The cluster store is a set of child objects.  Every operation of the    *)
(* reconciler is one action: it lists the children it selects, decides,    *)
(* writes, and leaves its inputs, result and store calls in `last`.  Any   *)
(* one store call of a pass may fail; the pass then returns the error and  *)
(* the writes it made before stand.  The environment (users, other         *)
(* controllers, admission webhooks) edits the parent spec and tampers with *)
(* the children.                                                           *)
(***************************************************************************)
EXTENDS FiniteSets, Integers, Sequences, TLC

\* ------------------------------------------------------------------ bounds

\* Largest replica count a spec declares or a Deployment is scaled to.
MaxReplicas == 2
\* Number of disturbances in one run: spec edits, out-of-band edits of
\* children, failed store calls.
MaxEnv == 3

\* ------------------------------------------------------------------ domains

Parents == {"cp1", "cp2"}
\* Both ControlPlanes live in the same namespace.
CpNamespace(p) == "a"
Namespaces == {"a", "b"}
\* Cluster-scoped objects have no namespace; a listing without
\* client.InNamespace spans all namespaces.
NoNs == ""
Kinds == {"Deployment", "ServiceAccount", "Service", "ValidatingWebhookConfiguration",
          "ClusterRole", "ClusterRoleBinding", "Role", "RoleBinding", "Secret"}
\* Controller images a spec may name; the image stands for everything that
\* is generated from the spec's pod template.  NoImage: no image resolvable.
Images == {"img1", "img2"}
NoImage == "none"
\* Object labels / owner markers: the generated set, or anything else.
GenLabels == "generated"
StaleLabels == "stale"
Results == {"Noop", "Created", "Updated", "Deleted"}
NoErr == ""
\* Content of ca.crt in the certificate Secret handed to the webhook
\* configuration; NoCa: the key is missing.
CaBundles == {"ca1"}
NoCa == "none"
\* Selector and ports of the admission webhook Service.
GenService == "webhook-svc"
\* Validated watch namespaces handed to a pass.
WatchLists == {<<>>, <<"a">>, <<"a", "b">>, <<"a", "a">>}

\* Number of object names the store hands out per kind and namespace: one
\* for the first child of each parent and one for every disturbance, so
\* that a pass never waits for a name.
MaxId == MaxEnv + Cardinality(Parents)

\* numReplicasWhenNoDataPlane, line 41.
numReplicasWhenNoDataPlane == 0

\* A pointer is the empty set (nil) or a singleton.
Ptr(S) == {{}} \cup {{x} : x \in S}

VARIABLES
  family,   \* the child-kind family this run reconciles
  cps,      \* parent -> ControlPlane spec
  watch,    \* parent -> validated watch namespaces
  store,    \* the cluster store: set of child objects
  nextId,   \* <<kind, namespace>> -> next object name / creation stamp
  env,      \* disturbances so far: spec edits, out-of-band edits, failed calls
  last,     \* the last step: operation, inputs, result, error, store calls
  templateRules,    \* generated.Rules: the rules of the ClusterRole template
  gvl,              \* discovery mapping: GroupVersion -> APIResources
  policyRules,      \* what processClusterRole last returned
  grants,           \* the WatchNamespaceGrants in the store
  watchNamespaces,  \* parent -> spec.watchNamespaces
  validated,        \* what validateWatchNamespaceGrants returned, latest last
  ext,              \* the KonnectExtension as the API server stores it
  held,             \* the copy of the KonnectExtension the reconciler holds
  dependents,       \* the DataPlanes and ControlPlanes listed for the extension
  kgcps,            \* the KonnectGatewayControlPlanes, in listing order
  cert,             \* a certificate text
  reply             \* what the last operation of the Konnect reconciler returned

\* The inputs and the result of processClusterRole.
rbacVars == <<templateRules, gvl, policyRules>>
\* The state the namespace grant validation reads, and its results.
grantVars == <<grants, watchNamespaces, validated>>
\* The state of the KonnectExtension reconciler.
konnectVars == <<ext, held, dependents, kgcps, cert, reply>>

vars == <<family, cps, watch, store, nextId, env, last,
          templateRules, gvl, policyRules, grants, watchNamespaces, validated,
          ext, held, dependents, kgcps, cert, reply>>

\* ------------------------------------------------------------------ objects

\* ControlPlane spec: the fields the operations read.
CpSpec(image, dataplane, replicas, webhook, container) ==
  [image |-> image, dataplane |-> dataplane, replicas |-> replicas,
   webhook |-> webhook, container |-> container]

\* A child object.  hash: the spec-hash annotation (nil or the hashed spec);
\* body: pod template / rules / webhooks / selector and ports; ref: name of
\* the role a binding refers to; subj: the subjects name the ServiceAccount.
Child(id, kind, owner, ns, labels, hash, body, replicas, ref, subj) ==
  [id |-> id, kind |-> kind, owner |-> owner, ns |-> ns, labels |-> labels,
   hash |-> hash, body |-> body, replicas |-> replicas, ref |-> ref, subj |-> subj]

\* ------------------------------------------------------------------ store calls

\* A pass in progress: the store, the names handed out, the store calls
\* issued so far, the call that is going to fail (0: none), the error the
\* pass is returning ("" is nil).
Ctx(S, nid, failAt) ==
  [store |-> S, nextId |-> nid, failAt |-> failAt, calls |-> <<>>, err |-> NoErr]

\* No object: what a listing or a failed call reads and writes.
NoObj == Child(0, "", "", "", "", {}, "", {}, 0, FALSE)

\* A store call as the pass logs it: n is the number of children a listing
\* returned or the name of the object written; old and new are the object
\* before and after the write.
Call(verb, kind, ns, n, old, new) ==
  [verb |-> verb, kind |-> kind, ns |-> ns, n |-> n, old |-> old, new |-> new]

Logged(c, call) == [c EXCEPT !.calls = Append(@, call)]

\* The next store call is the one that fails.
Failing(c) == Len(c.calls) + 1 = c.failAt

Fail(c, msg) == [c EXCEPT !.err = msg]

\* A store call that fails has no effect on the store.
FailedCall(c, verb, kind, ns) ==
  Fail(Logged(c, Call(verb, kind, ns, 0, NoObj, NoObj)), "store call failed")

\* Children of one kind carrying the owner markers of p, in namespace ns
\* (NoNs: in all namespaces).
Select(S, kind, p, ns) ==
  {o \in S : o.kind = kind /\ o.owner = p /\ (ns = NoNs \/ o.ns = ns)}

\* k8sutils.List*ForOwner / k8sutils.List* with the owner's label set.
List(c, kind, p, ns) ==
  IF Failing(c)
  THEN [ctx |-> FailedCall(c, "list", kind, ns), items |-> {}]
  ELSE LET items == Select(c.store, kind, p, ns) IN
       [ctx |-> Logged(c, Call("list", kind, ns, Cardinality(items), NoObj, NoObj)),
        items |-> items]

\* client.Create: the API server names the object and defaults an undeclared
\* replica count of a Deployment to 1.
Stored(obj, id) ==
  IF obj.kind = "Deployment" /\ obj.replicas = {}
  THEN [obj EXCEPT !.id = id, !.replicas = {1}]
  ELSE [obj EXCEPT !.id = id]

Create(c, obj) ==
  IF Failing(c)
  THEN FailedCall(c, "create", obj.kind, obj.ns)
  ELSE LET key == <<obj.kind, obj.ns>>
           id == c.nextId[key]
       IN  [Logged(c, Call("create", obj.kind, obj.ns, id, NoObj, Stored(obj, id))) EXCEPT
              !.store = @ \cup {Stored(obj, id)},
              !.nextId = [@ EXCEPT ![key] = id + 1]]

\* client.Patch / client.Update of the object read as `old`.
Write(c, verb, old, new) ==
  IF Failing(c)
  THEN FailedCall(c, verb, old.kind, old.ns)
  ELSE [Logged(c, Call(verb, old.kind, old.ns, old.id, old, new)) EXCEPT
          !.store = (@ \ {old}) \cup {new}]

\* client.Delete.
Delete(c, obj) ==
  IF Failing(c)
  THEN FailedCall(c, "delete", obj.kind, obj.ns)
  ELSE [Logged(c, Call("delete", obj.kind, obj.ns, obj.id, obj, NoObj)) EXCEPT
          !.store = @ \ {obj}]

\* Listing order: by namespace, then by creation.
NsRank(ns) == CASE ns = NoNs -> 0 [] ns = "a" -> 1 [] OTHER -> 2
Rank(o) == NsRank(o.ns) * (MaxId + 2) + o.id

\* The first of a set of children; within one namespace, the oldest.
Oldest(children) == CHOOSE o \in children : \A d \in children : Rank(o) <= Rank(d)

\* Delete the children one call at a time, oldest first, until one fails.
RECURSIVE DeleteEach(_, _)
DeleteEach(c, children) ==
  IF children = {} \/ c.err # NoErr
  THEN c
  ELSE LET o == Oldest(children) IN DeleteEach(Delete(c, o), children \ {o})

\* clientops.DeleteAll.
DeleteAll(c, children) == DeleteEach(c, children)

\* k8sreduce.Reduce*: keep the oldest child, delete the rest.
Reduce(c, children) == DeleteEach(c, children \ {Oldest(children)})

\* ------------------------------------------------------------------ helpers

\* k8sresources.SpecHashMatchesAnnotation: the annotation holds the hash of
\* the whole ControlPlane spec.
SpecHashMatchesAnnotation(spec, obj) == obj.hash = {spec}

\* k8sutils.EnsureObjectMetaIsUpdated: labels, annotations and owner markers
\* are brought to the generated ones; reports whether anything changed.
EnsureObjectMetaIsUpdated(existing, generated) ==
  [updated |-> existing.labels # generated.labels \/ existing.hash # generated.hash,
   obj |-> [existing EXCEPT !.labels = generated.labels, !.hash = generated.hash]]

\* What an operation returns: the pass so far (with the error), op.Result
\* (for createdOrUpdated: Noop is false) and the name of the object handed
\* back (0: nil).
Ret(c, res, name) == [ctx |-> c, res |-> res, name |-> name]

\* The error of the store call just made, or `res`.
RetIfOk(c, res, name) ==
  IF c.err # NoErr THEN Ret(c, "Noop", 0) ELSE Ret(c, res, name)

\* patch.ApplyPatchIfNotEmpty: patch only when the object differs from the
\* copy taken before the mutation.
ApplyPatchIfNotEmpty(c, existing, old, updated) ==
  IF ~updated \/ existing = old
  THEN Ret(c, "Noop", old.id)
  ELSE RetIfOk(Write(c, "patch", old, existing), "Updated", old.id)

\* ------------------------------------------------------------------ Deployment

\* GenerateImage that falls back to a default image instead of failing.
GenerateImageDefaulted(spec) == IF spec.image = NoImage THEN "img1" ELSE spec.image

\* controlplane.GenerateImage: the controller image of the spec.
GenerateImage(spec) == spec.image

\* k8sresources.GenerateNewDeploymentForControlPlane: pod template from the
\* spec, spec-hash annotation, owner markers, declared replicas.
GenerateNewDeploymentForControlPlane(spec, p) ==
  Child(0, "Deployment", p, CpNamespace(p), GenLabels, {spec}, spec.image,
        spec.replicas, 0, FALSE)

\* Lines 244-248: the pod template of the existing Deployment.
TemplateUpToDate(existing, generated) ==
  IF existing.body # generated.body
  THEN [updated |-> TRUE, obj |-> [existing EXCEPT !.body = generated.body]]
  ELSE [updated |-> FALSE, obj |-> existing]

\* The replica switch without its second case: the Deployment is pinned
\* but never scaled back.
ReplicasNeverRestored(spec, existing) ==
  IF ~spec.dataplane /\ (spec.replicas = {} \/ spec.replicas # {numReplicasWhenNoDataPlane})
        /\ existing.replicas # {numReplicasWhenNoDataPlane}
  THEN [updated |-> TRUE, obj |-> [existing EXCEPT !.replicas = {numReplicasWhenNoDataPlane}]]
  ELSE [updated |-> FALSE, obj |-> existing]

\* The replica switch without its first case: the Deployment is scaled to
\* the declared count but never pinned.
ReplicasNeverPinned(spec, existing) ==
  IF spec.dataplane /\ (spec.replicas # {} /\ spec.replicas # {numReplicasWhenNoDataPlane})
        /\ existing.replicas # spec.replicas
  THEN [updated |-> TRUE, obj |-> [existing EXCEPT !.replicas = spec.replicas]]
  ELSE [updated |-> FALSE, obj |-> existing]

\* Lines 250-267: the replica count of the existing Deployment.
ReplicasUpToDate(spec, existing) ==
  LET dataplaneIsSet == spec.dataplane
      replicas == spec.replicas
      zero == {numReplicasWhenNoDataPlane}
  IN  CASE ~dataplaneIsSet /\ (replicas = {} \/ replicas # zero) ->
             IF existing.replicas # zero
             THEN [updated |-> TRUE, obj |-> [existing EXCEPT !.replicas = zero]]
             ELSE [updated |-> FALSE, obj |-> existing]
        [] dataplaneIsSet /\ (replicas # {} /\ replicas # zero) ->
             IF existing.replicas # replicas
             THEN [updated |-> TRUE, obj |-> [existing EXCEPT !.replicas = replicas]]
             ELSE [updated |-> FALSE, obj |-> existing]
        [] OTHER -> [updated |-> FALSE, obj |-> existing]

\* The update branch with the fingerprint test outside the enforce test:
\* a matching fingerprint skips the update whatever enforce says.
UpdateDeploymentSkipping(c, spec, enforce, existingDeployment, generatedDeployment) ==
  IF SpecHashMatchesAnnotation(spec, existingDeployment)
  THEN Ret(c, "Noop", existingDeployment.id)
  ELSE
    LET m == EnsureObjectMetaIsUpdated(existingDeployment, generatedDeployment)
        t == TemplateUpToDate(m.obj, generatedDeployment)
        r == ReplicasUpToDate(spec, t.obj)
    IN  ApplyPatchIfNotEmpty(c, r.obj, existingDeployment,
                             m.updated \/ t.updated \/ r.updated)

\* The update branch without the fingerprint test: every pass compares and
\* patches.
UpdateDeploymentAlways(c, spec, enforce, existingDeployment, generatedDeployment) ==
  LET m == EnsureObjectMetaIsUpdated(existingDeployment, generatedDeployment)
      t == TemplateUpToDate(m.obj, generatedDeployment)
      r == ReplicasUpToDate(spec, t.obj)
  IN  ApplyPatchIfNotEmpty(c, r.obj, existingDeployment,
                           m.updated \/ t.updated \/ r.updated)

\* Lines 213-270: exactly one Deployment exists.
UpdateDeployment(c, spec, enforce, existingDeployment, generatedDeployment) ==
  IF ~enforce /\ SpecHashMatchesAnnotation(spec, existingDeployment)
  THEN Ret(c, "Noop", existingDeployment.id)
  ELSE
    LET m == EnsureObjectMetaIsUpdated(existingDeployment, generatedDeployment)
        t == TemplateUpToDate(m.obj, generatedDeployment)
        r == ReplicasUpToDate(spec, t.obj)
    IN  ApplyPatchIfNotEmpty(c, r.obj, existingDeployment,
                             m.updated \/ t.updated \/ r.updated)

\* Lines 272-280: no Deployment exists.
CreateDeployment(c, spec, generatedDeployment) ==
  LET created == IF ~spec.dataplane
                 THEN [generatedDeployment EXCEPT !.replicas = {numReplicasWhenNoDataPlane}]
                 ELSE generatedDeployment
  IN  RetIfOk(Create(c, created), "Created", c.nextId[<<created.kind, created.ns>>])

\* Reconciler.ensureDeployment, lines 166-281.
ensureDeployment(c0, spec, p, enforce) ==
  LET l == List(c0, "Deployment", p, CpNamespace(p))
      c == l.ctx
      deployments == l.items
      count == Cardinality(deployments)
  IN
  IF c.err # NoErr THEN Ret(c, "Noop", 0)
  ELSE IF count > 1
  THEN LET d == Reduce(c, deployments) IN
       Ret(IF d.err # NoErr THEN d ELSE Fail(d, "number of deployments reduced"), "Noop", 0)
  ELSE IF GenerateImage(spec) = NoImage
  THEN Ret(Fail(c, "invalid image"), "Noop", 0)
  ELSE
    LET generatedDeployment == GenerateNewDeploymentForControlPlane(spec, p) IN
    IF count = 1
    THEN UpdateDeployment(c, spec, enforce, Oldest(deployments), generatedDeployment)
    ELSE CreateDeployment(c, spec, generatedDeployment)

\* ------------------------------------------------------------------ ServiceAccount

\* k8sresources.GenerateNewServiceAccountForControlPlane + SetOwnerForObject.
GenerateNewServiceAccountForControlPlane(p) ==
  Child(0, "ServiceAccount", p, CpNamespace(p), GenLabels, {}, "", {}, 0, FALSE)

\* ensureServiceAccount with a duplicate branch that reports the duplicates
\* and leaves them in place.
ensureServiceAccountNotReducing(c0, p) ==
  LET l == List(c0, "ServiceAccount", p, CpNamespace(p))
      c == l.ctx
      serviceAccounts == l.items
      count == Cardinality(serviceAccounts)
      generatedServiceAccount == GenerateNewServiceAccountForControlPlane(p)
  IN
  IF c.err # NoErr THEN Ret(c, "Noop", 0)
  ELSE IF count > 1
  THEN Ret(Fail(c, "number of serviceAccounts reduced"), "Noop", 0)
  ELSE IF count = 1
  THEN
    LET existingServiceAccount == Oldest(serviceAccounts)
        m == EnsureObjectMetaIsUpdated(existingServiceAccount, generatedServiceAccount)
    IN  IF m.updated
        THEN RetIfOk(Write(c, "update", existingServiceAccount, m.obj), "Updated",
                     existingServiceAccount.id)
        ELSE Ret(c, "Noop", existingServiceAccount.id)
  ELSE Ret(Create(c, generatedServiceAccount), "Created", c.nextId[<<"ServiceAccount", CpNamespace(p)>>])

\* Reconciler.ensureServiceAccount, lines 283-325.  createdOrModified is
\* reported as Created / Updated (true) or Noop (false).
ensureServiceAccount(c0, p) ==
  LET l == List(c0, "ServiceAccount", p, CpNamespace(p))
      c == l.ctx
      serviceAccounts == l.items
      count == Cardinality(serviceAccounts)
      generatedServiceAccount == GenerateNewServiceAccountForControlPlane(p)
  IN
  IF c.err # NoErr THEN Ret(c, "Noop", 0)
  ELSE IF count > 1
  THEN LET d == Reduce(c, serviceAccounts) IN
       Ret(IF d.err # NoErr THEN d ELSE Fail(d, "number of serviceAccounts reduced"), "Noop", 0)
  ELSE IF count = 1
  THEN
    LET existingServiceAccount == Oldest(serviceAccounts)
        m == EnsureObjectMetaIsUpdated(existingServiceAccount, generatedServiceAccount)
    IN  IF m.updated
        THEN RetIfOk(Write(c, "update", existingServiceAccount, m.obj), "Updated",
                     existingServiceAccount.id)
        ELSE Ret(c, "Noop", existingServiceAccount.id)
  ELSE Ret(Create(c, generatedServiceAccount), "Created", c.nextId[<<"ServiceAccount", CpNamespace(p)>>])

\* ------------------------------------------------------------------ webhook

\* isAdmissionWebhookEnabled: the spec turns the admission webhook on.
isAdmissionWebhookEnabled(spec) == spec.webhook

\* k8sresources.GenerateNewAdmissionWebhookServiceForControlPlane.
GenerateNewAdmissionWebhookServiceForControlPlane(p) ==
  Child(0, "Service", p, CpNamespace(p), GenLabels, {}, GenService, {}, 0, FALSE)

\* The comparison of selector and ports always finding a difference.
ServiceNeverUpToDate(existing, generated) ==
  [updated |-> TRUE, obj |-> [existing EXCEPT !.body = generated.body]]

\* Lines 1059-1066: selector and ports of the existing Service.
ServiceUpToDate(existing, generated) ==
  IF existing.body # generated.body
  THEN [updated |-> TRUE, obj |-> [existing EXCEPT !.body = generated.body]]
  ELSE [updated |-> FALSE, obj |-> existing]

\* Reconciler.ensureAdmissionWebhookService, lines 1011-1082.
ensureAdmissionWebhookService(c0, spec, p) ==
  LET l == List(c0, "Service", p, CpNamespace(p))
      c == l.ctx
      services == l.items
      count == Cardinality(services)
  IN
  IF c.err # NoErr THEN Ret(c, "Noop", 0)
  ELSE IF ~isAdmissionWebhookEnabled(spec)
  THEN IF count = 0
       THEN Ret(c, "Noop", 0)
       ELSE RetIfOk(DeleteAll(c, services), "Deleted", 0)
  ELSE IF count > 1
  THEN LET d == Reduce(c, services) IN
       Ret(IF d.err # NoErr THEN d
           ELSE Fail(d, "number of ControlPlane admission webhook Services reduced"),
           "Noop", 0)
  ELSE
    LET generatedService == GenerateNewAdmissionWebhookServiceForControlPlane(p) IN
    IF count = 1
    THEN
      LET existingService == Oldest(services)
          m == EnsureObjectMetaIsUpdated(existingService, generatedService)
          b == ServiceUpToDate(m.obj, generatedService)
      IN  IF m.updated \/ b.updated
          THEN RetIfOk(Write(c, "update", existingService, b.obj), "Updated", existingService.id)
          ELSE Ret(c, "Noop", existingService.id)
    ELSE RetIfOk(Create(c, generatedService), "Created", c.nextId[<<"Service", CpNamespace(p)>>])

\* The webhooks generated for an image and a CA bundle.
WebhooksFor(image, ca) == image \o "+" \o ca

\* k8sresources.GenerateValidatingWebhookConfigurationForControlPlane,
\* SetOwnerForObjectThroughLabels and AnnotateObjWithHash, lines 1129-1148.
GenerateValidatingWebhookConfigurationForControlPlane(spec, p, ca) ==
  Child(0, "ValidatingWebhookConfiguration", p, NoNs, GenLabels, {spec},
        WebhooksFor(spec.image, ca), {}, 0, FALSE)

\* Lines 1174-1178: the webhooks of the existing configuration.
WebhooksUpToDate(existing, generated) ==
  IF existing.body # generated.body \/ existing.labels # generated.labels
  THEN [updated |-> TRUE, obj |-> [existing EXCEPT !.body = generated.body]]
  ELSE [updated |-> FALSE, obj |-> existing]

\* The update branch without the metadata step: only the webhooks are
\* compared and patched.
UpdateValidatingWebhookConfigurationWebhooksOnly(c, spec, enforceConfig, webhookConfiguration, generatedWebhookConfiguration) ==
  IF ~enforceConfig /\ SpecHashMatchesAnnotation(spec, webhookConfiguration)
  THEN Ret(c, "Noop", webhookConfiguration.id)
  ELSE
    IF webhookConfiguration.body # generatedWebhookConfiguration.body
    THEN Ret(Write(c, "patch", webhookConfiguration,
                   [webhookConfiguration EXCEPT !.body = generatedWebhookConfiguration.body]),
             "Updated", webhookConfiguration.id)
    ELSE Ret(c, "Noop", webhookConfiguration.id)

\* Lines 1150-1186: exactly one ValidatingWebhookConfiguration exists.
UpdateValidatingWebhookConfiguration(c, spec, enforceConfig, webhookConfiguration, generatedWebhookConfiguration) ==
  IF ~enforceConfig /\ SpecHashMatchesAnnotation(spec, webhookConfiguration)
  THEN Ret(c, "Noop", webhookConfiguration.id)
  ELSE
    LET m == EnsureObjectMetaIsUpdated(webhookConfiguration, generatedWebhookConfiguration)
        w == WebhooksUpToDate(m.obj, generatedWebhookConfiguration)
    IN  IF m.updated \/ w.updated
        THEN Ret(Write(c, "patch", webhookConfiguration, w.obj), "Updated",
                 webhookConfiguration.id)
        ELSE Ret(c, "Noop", webhookConfiguration.id)

\* Reconciler.ensureValidatingWebhookConfiguration, lines 1084-1189.
ensureValidatingWebhookConfiguration(c0, spec, p, ca, enforceConfig) ==
  LET l == List(c0, "ValidatingWebhookConfiguration", p, NoNs)
      c == l.ctx
      validatingWebhookConfigurations == l.items
      count == Cardinality(validatingWebhookConfigurations)
  IN
  IF c.err # NoErr THEN Ret(c, "Noop", 0)
  ELSE IF count > 1
  THEN LET d == Reduce(c, validatingWebhookConfigurations) IN
       Ret(IF d.err # NoErr THEN d
           ELSE Fail(d, "number of validatingWebhookConfigurations reduced"), "Noop", 0)
  ELSE IF ~isAdmissionWebhookEnabled(spec)
  THEN IF count = 0
       THEN Ret(c, "Noop", 0)
       ELSE RetIfOk(DeleteAll(c, validatingWebhookConfigurations), "Deleted", 0)
  ELSE IF ~spec.container
  THEN Ret(Fail(c, "controller container not found"), "Noop", 0)
  ELSE IF ca = NoCa
  THEN Ret(Fail(c, "ca.crt not found in secret"), "Noop", 0)
  ELSE IF spec.image = NoImage
  THEN Ret(Fail(c, "failed generating ControlPlane's ValidatingWebhookConfiguration"),
           "Noop", 0)
  ELSE
    LET generatedWebhookConfiguration ==
          GenerateValidatingWebhookConfigurationForControlPlane(spec, p, ca)
    IN
    IF count = 1
    THEN UpdateValidatingWebhookConfiguration(c, spec, enforceConfig,
           Oldest(validatingWebhookConfigurations), generatedWebhookConfiguration)
    ELSE Ret(Create(c, generatedWebhookConfiguration), "Created",
             c.nextId[<<"ValidatingWebhookConfiguration", NoNs>>])

\* ------------------------------------------------------------------ RBAC

\* The panic of a nil dereference, reported as the error of the pass.
Panic == "panic: nil pointer dereference"

\* processClusterRole: the rules of the ClusterRole template generated for an
\* image, whole or split into the cluster-scoped and the namespaced part.
AllRules(image) == image \o "/all"
ClusterRules(image) == image \o "/cluster"
RoleRules(image) == image \o "/namespaced"

\* k8sresources.GenerateNewClusterRoleForControlPlane + owner labels.
GenerateNewClusterRoleForControlPlane(spec, p, rules) ==
  Child(0, "ClusterRole", p, NoNs, GenLabels, {}, rules, {}, 0, FALSE)

\* k8sresources.GenerateNewRoleForControlPlane + owner labels.
GenerateNewRoleForControlPlane(spec, p, namespace) ==
  Child(0, "Role", p, namespace, GenLabels, {}, RoleRules(spec.image), {}, 0, FALSE)

\* k8sresources.GenerateNewClusterRoleBindingForControlPlane + owner labels.
GenerateNewClusterRoleBindingForControlPlane(p, clusterRoleName) ==
  Child(0, "ClusterRoleBinding", p, NoNs, GenLabels, {}, "", {}, clusterRoleName, TRUE)

\* k8sresources.GenerateNewRoleBindingForControlPlane + owner labels.
GenerateNewRoleBindingForControlPlane(p, roleNN) ==
  Child(0, "RoleBinding", p, roleNN.ns, GenLabels, {}, "", {}, roleNN.name, TRUE)

\* Reconciler.generateRoleAndClusterRole, lines 623-653: the generated Roles
\* (one per entry of the watch list) and the generated ClusterRole.
generateRoleAndClusterRole(spec, p, verifiedWatchNamespaces) ==
  IF Len(verifiedWatchNamespaces) > 0
  THEN [roles |-> [i \in 1..Len(verifiedWatchNamespaces) |->
                     GenerateNewRoleForControlPlane(spec, p, verifiedWatchNamespaces[i])],
        clusterRole |-> GenerateNewClusterRoleForControlPlane(spec, p, ClusterRules(spec.image))]
  ELSE [roles |-> <<>>,
        clusterRole |-> GenerateNewClusterRoleForControlPlane(spec, p, AllRules(spec.image))]

\* Reconciler.ensureClusterRole, lines 655-699.
ensureClusterRole(c0, p, generatedClusterRole) ==
  LET l == List(c0, "ClusterRole", p, NoNs)
      c == l.ctx
      clusterRoles == l.items
      count == Cardinality(clusterRoles)
  IN
  IF c.err # NoErr THEN Ret(c, "Noop", 0)
  ELSE IF count > 1
  THEN LET d == Reduce(c, clusterRoles) IN
       Ret(IF d.err # NoErr THEN d ELSE Fail(d, "number of clusterRoles reduced"), "Noop", 0)
  ELSE IF count = 1
  THEN
    LET existing == Oldest(clusterRoles)
        m == EnsureObjectMetaIsUpdated(existing, generatedClusterRole)
    IN  IF m.updated \/ existing.body # generatedClusterRole.body
        THEN RetIfOk(Write(c, "patch", existing,
                           [m.obj EXCEPT !.body = generatedClusterRole.body]),
                     "Updated", existing.id)
        ELSE Ret(c, "Noop", existing.id)
  ELSE Ret(Create(c, generatedClusterRole), "Created", c.nextId[<<"ClusterRole", NoNs>>])

\* Lines 598-616 and 814-832: labels and subjects of the existing binding.
BindingUpToDate(c, existing, generated) ==
  LET m == EnsureObjectMetaIsUpdated(existing, generated)
      updatedServiceAccount == ~existing.subj
      new == IF updatedServiceAccount THEN [m.obj EXCEPT !.subj = generated.subj] ELSE m.obj
  IN  IF m.updated \/ updatedServiceAccount
      THEN RetIfOk(Write(c, "patch", existing, new), "Updated", existing.id)
      ELSE Ret(c, "Noop", existing.id)

\* ensureClusterRoleBinding rewriting the role reference of the existing
\* binding instead of deleting the binding.
ensureClusterRoleBindingPatchingRoleRef(c0, p, clusterRoleName) ==
  LET l == List(c0, "ClusterRoleBinding", p, NoNs)
      c == l.ctx
      clusterRoleBindings == l.items
      count == Cardinality(clusterRoleBindings)
      generated == GenerateNewClusterRoleBindingForControlPlane(p, clusterRoleName)
  IN
  IF c.err # NoErr THEN Ret(c, "Noop", 0)
  ELSE IF count > 1
  THEN LET d == Reduce(c, clusterRoleBindings) IN
       Ret(IF d.err # NoErr THEN d ELSE Fail(d, "number of clusterRoleBindings reduced"),
           "Noop", 0)
  ELSE IF count = 1
  THEN
    LET existing == Oldest(clusterRoleBindings) IN
    IF existing.ref # clusterRoleName
    THEN RetIfOk(Write(c, "patch", existing, [existing EXCEPT !.ref = clusterRoleName]),
                 "Updated", existing.id)
    ELSE BindingUpToDate(c, existing, generated)
  ELSE Ret(Create(c, generated), "Created", c.nextId[<<"ClusterRoleBinding", NoNs>>])

\* Reconciler.ensureClusterRoleBinding, lines 772-837.
ensureClusterRoleBinding(c0, p, clusterRoleName) ==
  LET l == List(c0, "ClusterRoleBinding", p, NoNs)
      c == l.ctx
      clusterRoleBindings == l.items
      count == Cardinality(clusterRoleBindings)
      generated == GenerateNewClusterRoleBindingForControlPlane(p, clusterRoleName)
  IN
  IF c.err # NoErr THEN Ret(c, "Noop", 0)
  ELSE IF count > 1
  THEN LET d == Reduce(c, clusterRoleBindings) IN
       Ret(IF d.err # NoErr THEN d ELSE Fail(d, "number of clusterRoleBindings reduced"),
           "Noop", 0)
  ELSE IF count = 1
  THEN
    LET existing == Oldest(clusterRoleBindings) IN
    IF existing.ref # clusterRoleName
    THEN LET d == Delete(c, existing) IN
         Ret(IF d.err # NoErr THEN d
             ELSE Fail(d, "name of ClusterRole changed, out of date ClusterRoleBinding deleted"),
             "Noop", 0)
    ELSE BindingUpToDate(c, existing, generated)
  ELSE Ret(Create(c, generated), "Created", c.nextId[<<"ClusterRoleBinding", NoNs>>])

\* ensureRoleBinding reporting a binding that names another Role without
\* deleting it.
ensureRoleBindingKeepingStale(c0, p, roleNN) ==
  LET l == List(c0, "RoleBinding", p, roleNN.ns)
      c == l.ctx
      roleBindings == l.items
      count == Cardinality(roleBindings)
      generated == GenerateNewRoleBindingForControlPlane(p, roleNN)
  IN
  IF c.err # NoErr THEN Ret(c, "Noop", 0)
  ELSE IF count > 1
  THEN LET d == Reduce(c, roleBindings) IN
       Ret(IF d.err # NoErr THEN d ELSE Fail(d, "number of roleBindings reduced"), "Noop", 0)
  ELSE IF count = 1
  THEN
    LET existing == Oldest(roleBindings) IN
    IF existing.ref # roleNN.name
    THEN Ret(Fail(c, "name of Role changed, out of date RoleBinding deleted"), "Noop", 0)
    ELSE BindingUpToDate(c, existing, generated)
  ELSE Ret(Create(c, generated), "Created", c.nextId[<<"RoleBinding", roleNN.ns>>])

\* Reconciler.ensureRoleBinding, lines 555-621.
ensureRoleBinding(c0, p, roleNN) ==
  LET l == List(c0, "RoleBinding", p, roleNN.ns)
      c == l.ctx
      roleBindings == l.items
      count == Cardinality(roleBindings)
      generated == GenerateNewRoleBindingForControlPlane(p, roleNN)
  IN
  IF c.err # NoErr THEN Ret(c, "Noop", 0)
  ELSE IF count > 1
  THEN LET d == Reduce(c, roleBindings) IN
       Ret(IF d.err # NoErr THEN d ELSE Fail(d, "number of roleBindings reduced"), "Noop", 0)
  ELSE IF count = 1
  THEN
    LET existing == Oldest(roleBindings) IN
    IF existing.ref # roleNN.name
    THEN LET d == Delete(c, existing) IN
         Ret(IF d.err # NoErr THEN d
             ELSE Fail(d, "name of Role changed, out of date RoleBinding deleted"),
             "Noop", 0)
    ELSE BindingUpToDate(c, existing, generated)
  ELSE Ret(Create(c, generated), "Created", c.nextId[<<"RoleBinding", roleNN.ns>>])

\* What ensureRoles returns: createdOrUpdated and the Roles (namespace, name).
RolesRet(c, createdOrUpdated, roles) ==
  [ctx |-> c, createdOrUpdated |-> createdOrUpdated, roles |-> roles]

NN(ns, name) == [ns |-> ns, name |-> name]

\* Reconciler.ensureRoles, lines 479-532: the loop from entry i on.
RECURSIVE rolesLoop(_, _, _, _, _, _)
rolesLoop(c0, p, generatedRoles, i, createdOrUpdated, roles) ==
  IF i > Len(generatedRoles)
  THEN RolesRet(c0, createdOrUpdated, roles)
  ELSE
    LET generatedRole == generatedRoles[i]
        l == List(c0, "Role", p, generatedRole.ns)
        c == l.ctx
        existingRoles == l.items
        count == Cardinality(existingRoles)
    IN
    IF c.err # NoErr THEN RolesRet(c, FALSE, <<>>)
    ELSE IF count = 0
    THEN LET d == Create(c, generatedRole) IN
         IF d.err # NoErr THEN RolesRet(d, FALSE, <<>>)
         ELSE rolesLoop(d, p, generatedRoles, i + 1, TRUE,
                Append(roles, NN(generatedRole.ns, c.nextId[<<"Role", generatedRole.ns>>])))
    ELSE IF count = 1
    THEN LET existing == Oldest(existingRoles)
             m == EnsureObjectMetaIsUpdated(existing, generatedRole)
         IN  IF m.updated \/ existing.body # generatedRole.body
             THEN LET d == Write(c, "patch", existing,
                                 [m.obj EXCEPT !.body = generatedRole.body])
                  IN  IF d.err # NoErr THEN RolesRet(d, FALSE, <<>>)
                      ELSE rolesLoop(d, p, generatedRoles, i + 1, TRUE,
                                     Append(roles, NN(existing.ns, existing.id)))
             ELSE rolesLoop(c, p, generatedRoles, i + 1, createdOrUpdated,
                            Append(roles, NN(existing.ns, existing.id)))
    ELSE LET d == Reduce(c, existingRoles) IN
         RolesRet(IF d.err # NoErr THEN d ELSE Fail(d, "number of Roles reduced"),
                  FALSE, <<>>)

\* ensureRoles with the Roles listed once, before the loop: an entry of the
\* watch list is looked up in what the store held when the pass began.
RECURSIVE rolesLoopListedOnce(_, _, _, _, _, _, _)
rolesLoopListedOnce(S0, c0, p, generatedRoles, i, createdOrUpdated, roles) ==
  IF i > Len(generatedRoles)
  THEN RolesRet(c0, createdOrUpdated, roles)
  ELSE
    LET generatedRole == generatedRoles[i]
        existingRoles == Select(S0, "Role", p, generatedRole.ns)
        c == Logged(c0, Call("list", "Role", generatedRole.ns, Cardinality(existingRoles),
                             NoObj, NoObj))
    IN
    IF existingRoles = {}
    THEN LET d == Create(c, generatedRole) IN
         IF d.err # NoErr THEN RolesRet(d, FALSE, <<>>)
         ELSE rolesLoopListedOnce(S0, d, p, generatedRoles, i + 1, TRUE,
                Append(roles, NN(generatedRole.ns, c.nextId[<<"Role", generatedRole.ns>>])))
    ELSE rolesLoopListedOnce(S0, c, p, generatedRoles, i + 1, createdOrUpdated,
                             Append(roles, NN(generatedRole.ns, Oldest(existingRoles).id)))

ensureRolesListedOnce(c, p, generatedRoles) ==
  rolesLoopListedOnce(c.store, c, p, generatedRoles, 1, FALSE, <<>>)

ensureRoles(c, p, generatedRoles) == rolesLoop(c, p, generatedRoles, 1, FALSE, <<>>)

\* Reconciler.ensureRoleBindings, lines 534-553: the loop from role i on.
RECURSIVE roleBindingsLoop(_, _, _, _, _)
roleBindingsLoop(c0, p, roles, i, res) ==
  IF i > Len(roles)
  THEN Ret(c0, res, 0)
  ELSE LET r == ensureRoleBinding(c0, p, roles[i]) IN
       IF r.ctx.err # NoErr
       THEN Ret(r.ctx, "Noop", 0)
       ELSE roleBindingsLoop(r.ctx, p, roles, i + 1, IF r.res # "Noop" THEN r.res ELSE res)

ensureRoleBindings(c, p, roles) == roleBindingsLoop(c, p, roles, 1, "Noop")

\* deleteIfNotInNamespaceSet, lines 466-477, over a listing.
Range(s) == {s[i] : i \in DOMAIN s}
NotInNamespaceSet(children, namespaces) == {o \in children : o.ns \notin namespaces}

\* Pruning over a listing that is not narrowed to the owner's label set.
pruneOutdatedOfAnyOwner(c0, kind, p, validatedWatchNamespaces) ==
  LET l == List(c0, kind, p, NoNs)
      all == {o \in c0.store : o.kind = kind}
  IN
  IF l.ctx.err # NoErr THEN l.ctx
  ELSE DeleteEach(l.ctx, NotInNamespaceSet(all, Range(validatedWatchNamespaces)))

\* pruneOutdatedRoles / pruneOutdatedRoleBindings, lines 400-464.
pruneOutdated(c0, kind, p, validatedWatchNamespaces) ==
  LET l == List(c0, kind, p, NoNs) IN
  IF l.ctx.err # NoErr THEN l.ctx
  ELSE DeleteEach(l.ctx, NotInNamespaceSet(l.items, Range(validatedWatchNamespaces)))

\* Lines 359-397 without the return after ensureRoles: the RoleBindings are
\* ensured in the pass that created or patched a Role.
ensureNamespacedGrantsThrough(c0, p, generatedRoles, validatedWatchNamespaces) ==
  LET r == ensureRoles(c0, p, generatedRoles) IN
  IF r.ctx.err # NoErr THEN Ret(r.ctx, "Noop", 0)
  ELSE
    LET b == ensureRoleBindings(r.ctx, p, r.roles) IN
    IF b.ctx.err # NoErr THEN Ret(b.ctx, "Noop", 0)
    ELSE IF b.res # "Noop" \/ r.createdOrUpdated THEN Ret(b.ctx, "Updated", 0)
    ELSE
      LET pr == pruneOutdated(b.ctx, "Role", p, validatedWatchNamespaces) IN
      IF pr.err # NoErr THEN Ret(pr, "Noop", 0)
      ELSE Ret(pruneOutdated(pr, "RoleBinding", p, validatedWatchNamespaces), "Noop", 0)

\* Lines 359-397: Roles, RoleBindings and pruning.
ensureNamespacedGrants(c0, p, generatedRoles, validatedWatchNamespaces) ==
  LET r == ensureRoles(c0, p, generatedRoles) IN
  IF r.ctx.err # NoErr THEN Ret(r.ctx, "Noop", 0)
  ELSE IF r.createdOrUpdated THEN Ret(r.ctx, "Updated", 0)
  ELSE
    LET b == ensureRoleBindings(r.ctx, p, r.roles) IN
    IF b.ctx.err # NoErr THEN Ret(b.ctx, "Noop", 0)
    ELSE IF b.res # "Noop" THEN Ret(b.ctx, b.res, 0)
    ELSE
      LET pr == pruneOutdated(b.ctx, "Role", p, validatedWatchNamespaces) IN
      IF pr.err # NoErr THEN Ret(pr, "Noop", 0)
      ELSE Ret(pruneOutdated(pr, "RoleBinding", p, validatedWatchNamespaces), "Noop", 0)

\* Reconciler.ensureRolesAndClusterRoles, lines 327-398.
ensureRolesAndClusterRoles(c0, spec, p, validatedWatchNamespaces) ==
  IF ~spec.container THEN Ret(Fail(c0, Panic), "Noop", 0)
  ELSE IF spec.image = NoImage THEN Ret(Fail(c0, "invalid image"), "Noop", 0)
  ELSE
    LET g == generateRoleAndClusterRole(spec, p, validatedWatchNamespaces)
        cr == ensureClusterRole(c0, p, g.clusterRole)
    IN
    IF cr.ctx.err # NoErr THEN Ret(cr.ctx, "Noop", 0)
    ELSE IF cr.res # "Noop" THEN Ret(cr.ctx, "Updated", 0)
    ELSE
      LET crb == ensureClusterRoleBinding(cr.ctx, p, cr.name) IN
      IF crb.ctx.err # NoErr THEN Ret(crb.ctx, "Noop", 0)
      ELSE IF crb.res # "Noop" THEN Ret(crb.ctx, "Updated", 0)
      ELSE IF Len(g.roles) > 0
      THEN ensureNamespacedGrants(crb.ctx, p, g.roles, validatedWatchNamespaces)
      ELSE Ret(crb.ctx, "Noop", 0)

\* ------------------------------------------------------------------ passes

NoArgs == [enforce |-> FALSE, ca |-> NoCa, failAt |-> 0]

\* What a pass leaves in `last`: the operation, its inputs and what it
\* returned, with the store calls it issued.
Step(op, p, args, r) ==
  [op |-> op, p |-> p, args |-> args, res |-> r.res, err |-> r.ctx.err,
   calls |-> r.ctx.calls]

\* What a step of the environment leaves in `last`.
EnvStep == [op |-> "env", p |-> "cp1", args |-> NoArgs, res |-> "Noop", err |-> NoErr,
            calls |-> <<>>]

\* The store call that fails in a pass: none, or (while failures are left)
\* one of the calls the pass issues.
FailAts(free) == {0} \cup {k \in 1..Len(free.ctx.calls) : env < MaxEnv}

\* The pass `r` of operation `op` takes place.
Pass(op, p, args, r) ==
  /\ \A k \in DOMAIN nextId : r.ctx.nextId[k] <= MaxId + 1
  /\ store' = r.ctx.store
  /\ nextId' = r.ctx.nextId
  /\ env' = IF args.failAt = 0 THEN env ELSE env + 1
  /\ last' = Step(op, p, args, r)
  /\ UNCHANGED <<family, cps, watch, rbacVars, grantVars, konnectVars>>

EnsureDeployment ==
  /\ family = "Deployment"
  /\ \E p \in DOMAIN cps, enforce \in BOOLEAN :
      \E failAt \in FailAts(ensureDeployment(Ctx(store, nextId, 0), cps[p], p, enforce)) :
        \E r \in {ensureDeployment(Ctx(store, nextId, failAt), cps[p], p, enforce)} :
          Pass("ensureDeployment", p, [NoArgs EXCEPT !.enforce = enforce, !.failAt = failAt], r)

EnsureServiceAccount ==
  /\ family = "ServiceAccount"
  /\ \E p \in DOMAIN cps :
      \E failAt \in FailAts(ensureServiceAccount(Ctx(store, nextId, 0), p)) :
        \E r \in {ensureServiceAccount(Ctx(store, nextId, failAt), p)} :
          Pass("ensureServiceAccount", p, [NoArgs EXCEPT !.failAt = failAt], r)

EnsureAdmissionWebhookService ==
  /\ family = "Service"
  /\ \E p \in DOMAIN cps :
      \E failAt \in FailAts(ensureAdmissionWebhookService(Ctx(store, nextId, 0), cps[p], p)) :
        \E r \in {ensureAdmissionWebhookService(Ctx(store, nextId, failAt), cps[p], p)} :
          Pass("ensureAdmissionWebhookService", p, [NoArgs EXCEPT !.failAt = failAt], r)

EnsureValidatingWebhookConfiguration ==
  /\ family = "ValidatingWebhookConfiguration"
  /\ \E p \in DOMAIN cps, enforce \in BOOLEAN, ca \in CaBundles \cup {NoCa} :
      \E failAt \in FailAts(ensureValidatingWebhookConfiguration(
                              Ctx(store, nextId, 0), cps[p], p, ca, enforce)) :
        \E r \in {ensureValidatingWebhookConfiguration(
                    Ctx(store, nextId, failAt), cps[p], p, ca, enforce)} :
          Pass("ensureValidatingWebhookConfiguration", p,
               [enforce |-> enforce, ca |-> ca, failAt |-> failAt], r)

EnsureRolesAndClusterRoles ==
  /\ family = "RBAC"
  /\ \E p \in DOMAIN cps :
      \E failAt \in FailAts(ensureRolesAndClusterRoles(Ctx(store, nextId, 0), cps[p], p, watch[p])) :
        \E r \in {ensureRolesAndClusterRoles(Ctx(store, nextId, failAt), cps[p], p, watch[p])} :
          Pass("ensureRolesAndClusterRoles", p, [NoArgs EXCEPT !.failAt = failAt], r)

\* ------------------------------------------------------------------ environment

\* The operations of a family that read a field of the ControlPlane spec.
Readers ==
  [dataplane |-> {"Deployment", "DataPlaneConfiguration"},
   replicas |-> {"Deployment"},
   image |-> {"Deployment", "ValidatingWebhookConfiguration", "RBAC"},
   webhook |-> {"Secret", "Service", "ValidatingWebhookConfiguration"},
   container |-> {"ValidatingWebhookConfiguration", "RBAC", "DataPlaneConfiguration"},
   watch |-> {"RBAC"}]

\* The user replaces the ControlPlane spec: an edit of one of its fields.
EditSpec(p, field, spec) ==
  /\ family \in Readers[field]
  /\ env < MaxEnv
  /\ cps[p] # spec
  /\ cps' = [cps EXCEPT ![p] = spec]
  /\ env' = env + 1
  /\ last' = EnvStep
  /\ UNCHANGED <<family, watch, store, nextId, rbacVars, grantVars, konnectVars>>

SetDataPlane ==
  \E p \in DOMAIN cps, b \in BOOLEAN : EditSpec(p, "dataplane", [cps[p] EXCEPT !.dataplane = b])

SetReplicas ==
  \E p \in DOMAIN cps, r \in Ptr(0..MaxReplicas) : EditSpec(p, "replicas", [cps[p] EXCEPT !.replicas = r])

SetImage ==
  \E p \in DOMAIN cps, i \in Images \cup {NoImage} : EditSpec(p, "image", [cps[p] EXCEPT !.image = i])

SetWebhook ==
  \E p \in DOMAIN cps, b \in BOOLEAN : EditSpec(p, "webhook", [cps[p] EXCEPT !.webhook = b])

SetContainer ==
  \E p \in DOMAIN cps, b \in BOOLEAN : EditSpec(p, "container", [cps[p] EXCEPT !.container = b])

\* The validated watch namespaces change (spec edit, grant created or removed).
SetWatch ==
  \E p \in DOMAIN cps, w \in WatchLists :
    /\ family \in Readers.watch
    /\ env < MaxEnv
    /\ watch[p] # w
    /\ watch' = [watch EXCEPT ![p] = w]
    /\ env' = env + 1
    /\ last' = EnvStep
    /\ UNCHANGED <<family, cps, store, nextId, rbacVars, grantVars, konnectVars>>

\* An out-of-band edit leaves the store S.
Tamper(S) ==
  /\ env < MaxEnv
  /\ env' = env + 1
  /\ store' = S
  /\ last' = EnvStep
  /\ UNCHANGED <<family, cps, watch, rbacVars, grantVars, konnectVars>>

Replace(S, old, new) == (S \ {old}) \cup {new}

\* Someone scales a Deployment.
ExternalScale ==
  \E d \in store, n \in 0..MaxReplicas :
    /\ d.kind = "Deployment" /\ d.replicas # {n}
    /\ Tamper(Replace(store, d, [d EXCEPT !.replicas = {n}]))
    /\ UNCHANGED nextId

\* The payloads a child of a kind may be given out-of-band.
BodiesOf(kind) ==
  CASE kind = "Deployment" -> Images
    [] kind = "ValidatingWebhookConfiguration" ->
         {WebhooksFor(i, ca) : i \in Images, ca \in CaBundles}
    [] kind = "Service" -> {GenService, "edited"}
    [] kind = "ClusterRole" -> {AllRules(i) : i \in Images} \cup {ClusterRules(i) : i \in Images}
    [] kind = "Role" -> {RoleRules(i) : i \in Images}
    [] OTHER -> {}

\* A mutating webhook or a user rewrites the payload of a child.
ExternalEditBody ==
  \E d \in store :
    \E b \in BodiesOf(d.kind) :
      /\ d.body # b
      /\ Tamper(Replace(store, d, [d EXCEPT !.body = b]))
      /\ UNCHANGED nextId

\* Someone rewrites the labels of a child (the owner markers stay).
ExternalEditLabels ==
  \E d \in store :
    /\ d.labels # StaleLabels
    /\ Tamper(Replace(store, d, [d EXCEPT !.labels = StaleLabels]))
    /\ UNCHANGED nextId

\* Someone removes the ServiceAccount from the subjects of a binding.
ExternalEditSubjects ==
  \E d \in store :
    /\ d.kind \in {"ClusterRoleBinding", "RoleBinding"} /\ d.subj
    /\ Tamper(Replace(store, d, [d EXCEPT !.subj = FALSE]))
    /\ UNCHANGED nextId

ExternalDelete ==
  \E d \in store :
    /\ Tamper(store \ {d})
    /\ UNCHANGED nextId

\* A second child appears next to an existing one: a copy under a new name
\* (another instance of the operator, a restored backup).
ExternalDuplicate ==
  \E d \in store :
    LET key == <<d.kind, d.ns>> IN
    /\ nextId[key] <= MaxId
    /\ Tamper(store \cup {[d EXCEPT !.id = nextId[key]]})
    /\ nextId' = [nextId EXCEPT ![key] = @ + 1]

\* ------------------------------------------------------------------ specifications

InitSpec == CpSpec("img1", FALSE, {}, TRUE, TRUE)

\* Nothing has run yet.
InitStep == [op |-> "init", p |-> "cp1", args |-> NoArgs, res |-> "Noop", err |-> NoErr,
             calls |-> <<>>]

\* No ClusterRole template is being split.
NoPartition ==
  /\ templateRules = <<>>
  /\ gvl = <<>>
  /\ policyRules = [rolePolicyRules |-> <<>>, clusterRolePolicyRules |-> <<>>]

\* No watch namespaces are being validated.
NoValidation ==
  /\ grants = {}
  /\ watchNamespaces = <<>>
  /\ validated = <<>>

\* The KonnectExtension reconciler has not run and has nothing to read.
NoKonnect ==
  /\ ext = <<>>
  /\ held = <<>>
  /\ dependents = <<>>
  /\ kgcps = <<>>
  /\ cert = <<>>
  /\ reply = <<>>

Families == {"Deployment", "ServiceAccount", "Service", "ValidatingWebhookConfiguration", "RBAC"}

InitFamilyAfter(f, ps, w, disturbances) ==
  /\ family = f
  /\ cps = [p \in ps |-> InitSpec]
  /\ watch = [p \in ps |-> w]
  /\ store = {}
  /\ nextId = [k \in Kinds \X (Namespaces \cup {NoNs}) |-> 1]
  /\ env = disturbances
  /\ last = InitStep
  /\ NoPartition
  /\ NoValidation
  /\ NoKonnect

InitFamily(f, ps, w) == InitFamilyAfter(f, ps, w, 0)

NextDeployment ==
  \/ EnsureDeployment
  \/ SetDataPlane
  \/ SetReplicas
  \/ SetImage
  \/ ExternalScale
  \/ ExternalEditBody
  \/ ExternalEditLabels
  \/ ExternalDelete
  \/ ExternalDuplicate

SpecDeployment == InitFamily("Deployment", {"cp1"}, <<>>) /\ [][NextDeployment]_vars
InitRBAC == \E w \in WatchLists : InitFamily("RBAC", {"cp1"}, w)

\* Every operation.  The operations of different families select disjoint
\* kinds, so a behaviour follows the children of one family.
Init ==
  \/ \E f \in Families \ {"RBAC"} : InitFamily(f, {"cp1"}, <<>>)
  \/ InitRBAC

Next ==
  \/ EnsureDeployment
  \/ EnsureServiceAccount
  \/ EnsureAdmissionWebhookService
  \/ EnsureValidatingWebhookConfiguration
  \/ EnsureRolesAndClusterRoles
  \/ SetDataPlane
  \/ SetReplicas
  \/ SetImage
  \/ SetWebhook
  \/ SetContainer
  \/ SetWatch
  \/ ExternalScale
  \/ ExternalEditBody
  \/ ExternalEditLabels
  \/ ExternalEditSubjects
  \/ ExternalDelete
  \/ ExternalDuplicate

Spec == Init /\ [][Next]_vars

\* The two operations that keep a fingerprint of the spec on their child.
InitFingerprint ==
  \E f \in {"Deployment", "ValidatingWebhookConfiguration"} : InitFamily(f, {"cp1"}, <<>>)

NextFingerprint ==
  \/ EnsureDeployment
  \/ EnsureValidatingWebhookConfiguration
  \/ SetDataPlane
  \/ SetReplicas
  \/ SetImage
  \/ SetWebhook
  \/ SetContainer
  \/ ExternalScale
  \/ ExternalEditBody
  \/ ExternalEditLabels
  \/ ExternalDelete
  \/ ExternalDuplicate

SpecFingerprint == InitFingerprint /\ [][NextFingerprint]_vars

\* Re-invocation of ensureRolesAndClusterRoles for a fixed parent and watch
\* list: passes in which a store call may fail, and out-of-band edits of the
\* children.

\* A pass in which no store call fails would change something.
Pending ==
  \E p \in DOMAIN cps :
    LET r == ensureRolesAndClusterRoles(Ctx(store, nextId, 0), cps[p], p, watch[p]) IN
    /\ \A k \in DOMAIN nextId : r.ctx.nextId[k] <= MaxId + 1
    /\ \/ store # r.ctx.store
       \/ last # Step("ensureRolesAndClusterRoles", p, NoArgs, r)

\* The step is a pass in which no store call failed.
FailureFreePass ==
  /\ last'.op = "ensureRolesAndClusterRoles"
  /\ last'.args.failAt = 0

\* The reconciler is requeued after every error and every change: a pass
\* without a failing call is taken if it stays pending.  This is
\* WF_vars of the pass without a failing call, with Pending for its
\* enabledness.
Requeued == []<>(~Pending) \/ []<><<FailureFreePass>>_vars

NextReinvoke ==
  \/ EnsureRolesAndClusterRoles
  \/ ExternalEditBody
  \/ ExternalEditLabels
  \/ ExternalEditSubjects
  \/ ExternalDelete
  \/ ExternalDuplicate

SpecReinvoke == InitRBAC /\ [][NextReinvoke]_vars /\ Requeued

\* Two ControlPlanes in one namespace, reconciled in any interleaving, with
\* one disturbance in the run.
InitParents ==
  \/ \E f \in Families \ {"RBAC"} : InitFamilyAfter(f, Parents, <<>>, MaxEnv - 1)
  \/ InitFamilyAfter("RBAC", Parents, <<"a", "b">>, MaxEnv - 1)

NextParents ==
  \/ EnsureDeployment
  \/ EnsureServiceAccount
  \/ EnsureAdmissionWebhookService
  \/ EnsureValidatingWebhookConfiguration
  \/ EnsureRolesAndClusterRoles
  \/ SetWebhook
  \/ SetWatch
  \/ ExternalDuplicate

SpecParents == InitParents /\ [][NextParents]_vars

\* ------------------------------------------------------------------ properties

\* The Deployments and the ValidatingWebhookConfigurations an operation lists
\* for p (lines 173-180, 1092-1097).
TheDeployments(S, p) == Select(S, "Deployment", p, CpNamespace(p))
TheWebhookConfigurations(S, p) == Select(S, "ValidatingWebhookConfiguration", p, NoNs)

\* The store calls of a pass that write.
WriteVerbs == {"create", "patch", "update", "delete"}
Writes(calls) == {i \in DOMAIN calls : calls[i].verb \in WriteVerbs}

\* A pass from the current state with no failing store call.
Now == Ctx(store, nextId, 0)

\* A pass that returned no error and left the store as it was.
Skipped(r) == r.res = "Noop" /\ r.ctx.err = NoErr /\ Writes(r.ctx.calls) = {} /\ r.ctx.store = store

\* The Deployment was last brought to a spec without a dataplane and runs no
\* replica: it is pinned.
Pinned(d) == d.replicas = {numReplicasWhenNoDataPlane} /\ \E s \in d.hash : ~s.dataplane

\* The spec declares a replica count other than 0.
DeclaresReplicas(spec) == spec.replicas # {} /\ spec.replicas # {numReplicasWhenNoDataPlane}

\* C6, as the specification states it: after an ensureDeployment pass that
\* returns no error while the dataplane reference of the ControlPlane is
\* unset, the stored Deployment has 0 replicas, whatever the spec declares
\* (nil, 0 or n > 0) and whatever the Deployment had.  It is stated for the
\* passes with enforce set, which never skip on the fingerprint: what it
\* says of them is what the replica switch of lines 250-267 has to do.
C6_ReplicaPinning ==
  (last.op = "ensureDeployment" /\ last.err = NoErr /\ last.args.enforce
     /\ ~cps[last.p].dataplane)
    => /\ TheDeployments(store, last.p) # {}
       /\ \A d \in TheDeployments(store, last.p) : d.replicas = {numReplicasWhenNoDataPlane}

\* C7: when the one Deployment of a ControlPlane is pinned at 0 and the spec
\* now has the dataplane set and declares n > 0 replicas, one ensureDeployment
\* pass that returns no error leaves the Deployment with n replicas.
C7_ReplicaRestore ==
  \A p \in DOMAIN cps, enforce \in BOOLEAN :
    LET r == ensureDeployment(Now, cps[p], p, enforce) IN
    ( /\ Cardinality(TheDeployments(store, p)) = 1
      /\ \A d \in TheDeployments(store, p) : Pinned(d)
      /\ cps[p].dataplane /\ DeclaresReplicas(cps[p])
      /\ r.ctx.err = NoErr )
    => /\ r.res = "Updated"
       /\ Cardinality(TheDeployments(r.ctx.store, p)) = 1
       /\ \A e \in TheDeployments(r.ctx.store, p) : e.replicas = cps[p].replicas

\* A pass has just scaled a pinned Deployment to the declared n > 0.
C7_Restored ==
  /\ last.op = "ensureDeployment" /\ last.err = NoErr /\ last.res = "Updated"
  /\ cps[last.p].dataplane /\ DeclaresReplicas(cps[last.p])
  /\ \E i \in DOMAIN last.calls :
       /\ last.calls[i].verb = "patch"
       /\ Pinned(last.calls[i].old)
       /\ last.calls[i].new.replicas = cps[last.p].replicas
       /\ last.calls[i].new \in store

Generates(spec, ca) ==
  isAdmissionWebhookEnabled(spec) /\ spec.container /\ ca # NoCa /\ spec.image # NoImage

\* The metadata of the child is the generated metadata.
MetaUpToDate(obj, generated) == obj.labels = generated.labels /\ obj.hash = generated.hash

\* C9, as the specification states it: with exactly one existing child,
\* ensureDeployment and ensureValidatingWebhookConfiguration bring labels,
\* annotations and owner markers to the generated ones also when the
\* fingerprint matches the spec and enforce is false.
C9_MetadataWhateverTheFingerprint ==
  \A p \in DOMAIN cps :
    /\ LET r == ensureDeployment(Now, cps[p], p, FALSE) IN
       ( /\ Cardinality(TheDeployments(store, p)) = 1
         /\ \A d \in TheDeployments(store, p) : SpecHashMatchesAnnotation(cps[p], d)
         /\ r.ctx.err = NoErr )
       => \A e \in TheDeployments(r.ctx.store, p) :
            MetaUpToDate(e, GenerateNewDeploymentForControlPlane(cps[p], p))
    /\ \A ca \in CaBundles :
         LET r == ensureValidatingWebhookConfiguration(Now, cps[p], p, ca, FALSE) IN
         ( /\ Cardinality(TheWebhookConfigurations(store, p)) = 1
           /\ \A w \in TheWebhookConfigurations(store, p) : SpecHashMatchesAnnotation(cps[p], w)
           /\ Generates(cps[p], ca)
           /\ r.ctx.err = NoErr )
         => \A e \in TheWebhookConfigurations(r.ctx.store, p) :
              MetaUpToDate(e, GenerateValidatingWebhookConfigurationForControlPlane(cps[p], p, ca))

\* C9, amended: with exactly one existing child, a pass of ensureDeployment
\* or ensureValidatingWebhookConfiguration that returns no error brings
\* labels, annotations and owner markers to the generated ones when enforce
\* is set or the fingerprint differs from the spec's hash; with enforce false
\* and a matching fingerprint it returns Noop and writes nothing.
C9_MetadataUnlessSkipped ==
  \A p \in DOMAIN cps, enforce \in BOOLEAN :
    /\ LET r == ensureDeployment(Now, cps[p], p, enforce) IN
       \A d \in TheDeployments(store, p) :
         (TheDeployments(store, p) = {d} /\ r.ctx.err = NoErr)
         => IF ~enforce /\ SpecHashMatchesAnnotation(cps[p], d)
            THEN Skipped(r)
            ELSE /\ TheDeployments(r.ctx.store, p) # {}
                 /\ \A e \in TheDeployments(r.ctx.store, p) :
                      MetaUpToDate(e, GenerateNewDeploymentForControlPlane(cps[p], p))
    /\ \A ca \in CaBundles :
         LET r == ensureValidatingWebhookConfiguration(Now, cps[p], p, ca, enforce) IN
         \A w \in TheWebhookConfigurations(store, p) :
           ( /\ TheWebhookConfigurations(store, p) = {w}
             /\ Generates(cps[p], ca)
             /\ r.ctx.err = NoErr )
           => IF ~enforce /\ SpecHashMatchesAnnotation(cps[p], w)
              THEN Skipped(r)
              ELSE /\ TheWebhookConfigurations(r.ctx.store, p) # {}
                   /\ \A e \in TheWebhookConfigurations(r.ctx.store, p) :
                        MetaUpToDate(e, GenerateValidatingWebhookConfigurationForControlPlane(
                                          cps[p], p, ca))

\* An enforce pass has just brought back the labels of a
\* ValidatingWebhookConfiguration whose fingerprint matched the spec.
C9_LabelsRestored ==
  /\ last.op = "ensureValidatingWebhookConfiguration" /\ last.err = NoErr
  /\ last.args.enforce
  /\ \E i \in DOMAIN last.calls :
       /\ last.calls[i].verb = "patch"
       /\ SpecHashMatchesAnnotation(cps[last.p], last.calls[i].old)
       /\ last.calls[i].old.labels = StaleLabels
       /\ last.calls[i].new.labels = GenLabels
       /\ last.calls[i].new \in store

\* C10: with enforce set, a pass over exactly one child does not skip on a
\* matching fingerprint: when the pod template of the Deployment (the
\* webhooks of the ValidatingWebhookConfiguration) differs from the generated
\* one, a pass that returns no error leaves it equal to the generated one and
\* returns Updated, also when the stored fingerprint equals the spec's hash;
\* an enforce pass right after it returns Noop and writes nothing.
C10_EnforceOverride ==
  \A p \in DOMAIN cps :
    /\ LET r == ensureDeployment(Now, cps[p], p, TRUE)
           generated == GenerateNewDeploymentForControlPlane(cps[p], p)
       IN
       \A d \in TheDeployments(store, p) :
         (TheDeployments(store, p) = {d} /\ d.body # generated.body /\ r.ctx.err = NoErr)
         => /\ r.res = "Updated"
            /\ TheDeployments(r.ctx.store, p) # {}
            /\ \A e \in TheDeployments(r.ctx.store, p) : e.body = generated.body
            /\ LET again == ensureDeployment(Ctx(r.ctx.store, r.ctx.nextId, 0), cps[p], p, TRUE)
               IN  /\ again.res = "Noop" /\ again.ctx.err = NoErr
                   /\ Writes(again.ctx.calls) = {}
    /\ \A ca \in CaBundles :
         LET r == ensureValidatingWebhookConfiguration(Now, cps[p], p, ca, TRUE)
             generated == GenerateValidatingWebhookConfigurationForControlPlane(cps[p], p, ca)
         IN
         \A w \in TheWebhookConfigurations(store, p) :
           ( /\ TheWebhookConfigurations(store, p) = {w}
             /\ Generates(cps[p], ca)
             /\ w.body # generated.body
             /\ r.ctx.err = NoErr )
           => /\ r.res = "Updated"
              /\ TheWebhookConfigurations(r.ctx.store, p) # {}
              /\ \A e \in TheWebhookConfigurations(r.ctx.store, p) : e.body = generated.body
              /\ LET again == ensureValidatingWebhookConfiguration(
                                Ctx(r.ctx.store, r.ctx.nextId, 0), cps[p], p, ca, TRUE)
                 IN  /\ again.res = "Noop" /\ again.ctx.err = NoErr
                     /\ Writes(again.ctx.calls) = {}

\* An enforce pass has just patched the pod template of a Deployment whose
\* fingerprint matched the spec.
C10_TemplateEnforced ==
  /\ last.op = "ensureDeployment" /\ last.err = NoErr /\ last.res = "Updated"
  /\ last.args.enforce
  /\ \E i \in DOMAIN last.calls :
       /\ last.calls[i].verb = "patch"
       /\ SpecHashMatchesAnnotation(cps[last.p], last.calls[i].old)
       /\ last.calls[i].old.body # GenerateImage(cps[last.p])
       /\ last.calls[i].new.body = GenerateImage(cps[last.p])
       /\ last.calls[i].new \in store

\* ------------------------------------------------------------------ the count state machine

\* A call reported that it created or updated, with no error.
Reported(r) == r.ctx.err = NoErr /\ r.res \in {"Created", "Updated"}

\* A call reported Noop with no error and wrote nothing.
Quiet(r) == r.res = "Noop" /\ r.ctx.err = NoErr /\ Writes(r.ctx.calls) = {}

\* The pass that follows r, with no failing store call.
After(r) == Ctx(r.ctx.store, r.ctx.nextId, 0)

\* generateRoleAndClusterRole returns manifests (no panic, no error).
GeneratesRoles(spec) == spec.container /\ spec.image # NoImage

\* Names a role may have.
Names == 1..MaxId

\* C1: for each owned-child operation and every parent spec and input, a call
\* that returns no error and reports created or updated is followed, the
\* spec and inputs being the same and nothing else touching the store, by a
\* call that reports Noop and issues no create, patch, update or delete.
C1_Idempotence ==
  \A p \in DOMAIN cps :
    /\ \A enforce \in BOOLEAN :
         LET r == ensureDeployment(Now, cps[p], p, enforce) IN
         Reported(r) => Quiet(ensureDeployment(After(r), cps[p], p, enforce))
    /\ LET r == ensureServiceAccount(Now, p) IN
       Reported(r) => Quiet(ensureServiceAccount(After(r), p))
    /\ LET r == ensureAdmissionWebhookService(Now, cps[p], p) IN
       Reported(r) => Quiet(ensureAdmissionWebhookService(After(r), cps[p], p))
    /\ \A enforce \in BOOLEAN, ca \in CaBundles \cup {NoCa} :
         LET r == ensureValidatingWebhookConfiguration(Now, cps[p], p, ca, enforce) IN
         Reported(r) =>
           Quiet(ensureValidatingWebhookConfiguration(After(r), cps[p], p, ca, enforce))
    /\ \A w \in WatchLists :
         LET g == generateRoleAndClusterRole(cps[p], p, w)
             cr == ensureClusterRole(Now, p, g.clusterRole)
             rs == ensureRoles(Now, p, g.roles)
             again == ensureRoles(After(rs), p, g.roles)
         IN  GeneratesRoles(cps[p]) =>
               /\ Reported(cr) => Quiet(ensureClusterRole(After(cr), p, g.clusterRole))
               /\ (rs.ctx.err = NoErr /\ rs.createdOrUpdated) =>
                    /\ ~again.createdOrUpdated /\ again.ctx.err = NoErr
                    /\ Writes(again.ctx.calls) = {}
                    /\ again.roles = rs.roles
    /\ \A name \in Names :
         LET r == ensureClusterRoleBinding(Now, p, name) IN
         Reported(r) => Quiet(ensureClusterRoleBinding(After(r), p, name))
    /\ \A name \in Names, ns \in Namespaces :
         LET r == ensureRoleBinding(Now, p, NN(ns, name)) IN
         Reported(r) => Quiet(ensureRoleBinding(After(r), p, NN(ns, name)))

\* An ensureDeployment pass has just patched the Deployment, and the same
\* call made again reports Noop and writes nothing.
C1_SecondCallNoop ==
  /\ last.op = "ensureDeployment" /\ last.res = "Updated" /\ last.err = NoErr
  /\ \E i \in DOMAIN last.calls : last.calls[i].verb = "patch"
  /\ Quiet(ensureDeployment(Now, cps[last.p], last.p, last.args.enforce))

\* The calls of a pass that create or patch.
CreatesOrPatches(calls) ==
  {i \in DOMAIN calls : calls[i].verb \in {"create", "patch", "update"}}

\* A pass r over the listed duplicates left exactly one of them, created and
\* patched nothing and returned an error.
Reduced(listed, left, r) ==
  /\ Cardinality(left) = 1 /\ left \subseteq listed
  /\ CreatesOrPatches(r.ctx.calls) = {}
  /\ r.ctx.err # NoErr

\* A pass returned Noop or Updated with no error.
NoopOrUpdated(r) == r.res \in {"Noop", "Updated"} /\ r.ctx.err = NoErr

\* The children an operation lists for p.
TheServiceAccounts(S, p) == Select(S, "ServiceAccount", p, CpNamespace(p))
TheServices(S, p) == Select(S, "Service", p, CpNamespace(p))
TheClusterRoles(S, p) == Select(S, "ClusterRole", p, NoNs)
TheClusterRoleBindings(S, p) == Select(S, "ClusterRoleBinding", p, NoNs)
TheRoles(S, p, ns) == Select(S, "Role", p, ns)
TheRoleBindings(S, p, ns) == Select(S, "RoleBinding", p, ns)

\* The first entry of the watch list whose namespace holds duplicate Roles
\* (0: none).
FirstDuplicate(S, p, w) ==
  LET dup == {i \in DOMAIN w : Cardinality(TheRoles(S, p, w[i])) > 1} IN
  IF dup = {} THEN 0 ELSE CHOOSE i \in dup : \A j \in dup : i <= j

\* C2, as the specification states it: for every kind, when the listing
\* returns more than one child, one pass leaves exactly one of them, creates
\* and patches nothing and returns an error, and the next pass returns Noop or
\* Updated with no error.
C2_DuplicateCollapse ==
  \A p \in DOMAIN cps :
    /\ \A enforce \in BOOLEAN :
         LET r == ensureDeployment(Now, cps[p], p, enforce) IN
         Cardinality(TheDeployments(store, p)) > 1 =>
           /\ Reduced(TheDeployments(store, p), TheDeployments(r.ctx.store, p), r)
           /\ NoopOrUpdated(ensureDeployment(After(r), cps[p], p, enforce))
    /\ LET r == ensureServiceAccount(Now, p) IN
       Cardinality(TheServiceAccounts(store, p)) > 1 =>
         /\ Reduced(TheServiceAccounts(store, p), TheServiceAccounts(r.ctx.store, p), r)
         /\ NoopOrUpdated(ensureServiceAccount(After(r), p))
    /\ LET r == ensureAdmissionWebhookService(Now, cps[p], p) IN
       Cardinality(TheServices(store, p)) > 1 =>
         /\ Reduced(TheServices(store, p), TheServices(r.ctx.store, p), r)
         /\ NoopOrUpdated(ensureAdmissionWebhookService(After(r), cps[p], p))
    /\ \A enforce \in BOOLEAN, ca \in CaBundles \cup {NoCa} :
         LET r == ensureValidatingWebhookConfiguration(Now, cps[p], p, ca, enforce) IN
         Cardinality(TheWebhookConfigurations(store, p)) > 1 =>
           /\ Reduced(TheWebhookConfigurations(store, p),
                      TheWebhookConfigurations(r.ctx.store, p), r)
           /\ NoopOrUpdated(ensureValidatingWebhookConfiguration(After(r), cps[p], p, ca, enforce))
    /\ \A w \in WatchLists :
         LET g == generateRoleAndClusterRole(cps[p], p, w)
             cr == ensureClusterRole(Now, p, g.clusterRole)
             rs == ensureRoles(Now, p, g.roles)
             i == FirstDuplicate(store, p, w)
         IN  GeneratesRoles(cps[p]) =>
               /\ Cardinality(TheClusterRoles(store, p)) > 1 =>
                    /\ Reduced(TheClusterRoles(store, p), TheClusterRoles(cr.ctx.store, p), cr)
                    /\ NoopOrUpdated(ensureClusterRole(After(cr), p, g.clusterRole))
               /\ i # 0 =>
                    /\ Reduced(TheRoles(store, p, w[i]), TheRoles(rs.ctx.store, p, w[i]), rs)
                    /\ ensureRoles(After(rs), p, g.roles).ctx.err = NoErr
    /\ \A name \in Names :
         LET r == ensureClusterRoleBinding(Now, p, name) IN
         Cardinality(TheClusterRoleBindings(store, p)) > 1 =>
           /\ Reduced(TheClusterRoleBindings(store, p), TheClusterRoleBindings(r.ctx.store, p), r)
           /\ NoopOrUpdated(ensureClusterRoleBinding(After(r), p, name))
    /\ \A name \in Names, ns \in Namespaces :
         LET r == ensureRoleBinding(Now, p, NN(ns, name)) IN
         Cardinality(TheRoleBindings(store, p, ns)) > 1 =>
           /\ Reduced(TheRoleBindings(store, p, ns), TheRoleBindings(r.ctx.store, p, ns), r)
           /\ NoopOrUpdated(ensureRoleBinding(After(r), p, NN(ns, name)))

\* The pass after a reduction of bindings: Noop or Updated when the binding
\* left names the role, else the binding is deleted and an error returned.
AfterBindingsReduced(left, name, next, leftByNext) ==
  \A b \in left :
    IF b.ref = name
    THEN NoopOrUpdated(next)
    ELSE next.ctx.err # NoErr /\ leftByNext = {}

\* C2, amended: when the listing of an operation returns more than one child,
\* a pass in which no store call fails leaves exactly one of the listed
\* children, creates and patches no child of that listing and returns an
\* error.  Two operations differ: ensureAdmissionWebhookService with the
\* webhook disabled deletes all of them and returns Deleted with no error;
\* ensureRoles first creates or patches the Roles of the watch-list entries
\* that precede the namespace with the duplicates.  The next pass returns
\* Noop or Updated with no error when nothing but the duplicates was in its
\* way: the image is valid, the webhook is enabled with its container and CA
\* at hand (disabled: the configuration left is deleted, result Deleted), the
\* binding left names the role asked for (else it is deleted and an error
\* returned), no other watched namespace holds duplicate Roles.
C2_DuplicateCollapseGuarded ==
  \A p \in DOMAIN cps :
    /\ \A enforce \in BOOLEAN :
         LET r == ensureDeployment(Now, cps[p], p, enforce)
             next == ensureDeployment(After(r), cps[p], p, enforce)
         IN  Cardinality(TheDeployments(store, p)) > 1 =>
               /\ Reduced(TheDeployments(store, p), TheDeployments(r.ctx.store, p), r)
               /\ IF GenerateImage(cps[p]) # NoImage
                  THEN NoopOrUpdated(next)
                  ELSE next.ctx.err # NoErr
    /\ LET r == ensureServiceAccount(Now, p) IN
       Cardinality(TheServiceAccounts(store, p)) > 1 =>
         /\ Reduced(TheServiceAccounts(store, p), TheServiceAccounts(r.ctx.store, p), r)
         /\ NoopOrUpdated(ensureServiceAccount(After(r), p))
    /\ LET r == ensureAdmissionWebhookService(Now, cps[p], p) IN
       Cardinality(TheServices(store, p)) > 1 =>
         IF isAdmissionWebhookEnabled(cps[p])
         THEN /\ Reduced(TheServices(store, p), TheServices(r.ctx.store, p), r)
              /\ NoopOrUpdated(ensureAdmissionWebhookService(After(r), cps[p], p))
         ELSE /\ r.res = "Deleted" /\ r.ctx.err = NoErr
              /\ TheServices(r.ctx.store, p) = {}
    /\ \A enforce \in BOOLEAN, ca \in CaBundles \cup {NoCa} :
         LET r == ensureValidatingWebhookConfiguration(Now, cps[p], p, ca, enforce)
             next == ensureValidatingWebhookConfiguration(After(r), cps[p], p, ca, enforce)
         IN  Cardinality(TheWebhookConfigurations(store, p)) > 1 =>
               /\ Reduced(TheWebhookConfigurations(store, p),
                          TheWebhookConfigurations(r.ctx.store, p), r)
               /\ CASE Generates(cps[p], ca) -> NoopOrUpdated(next)
                    [] ~isAdmissionWebhookEnabled(cps[p]) ->
                         /\ next.res = "Deleted" /\ next.ctx.err = NoErr
                         /\ TheWebhookConfigurations(next.ctx.store, p) = {}
                    [] OTHER -> next.ctx.err # NoErr
    /\ \A w \in WatchLists :
         LET g == generateRoleAndClusterRole(cps[p], p, w)
             cr == ensureClusterRole(Now, p, g.clusterRole)
             rs == ensureRoles(Now, p, g.roles)
             next == ensureRoles(After(rs), p, g.roles)
             i == FirstDuplicate(store, p, w)
         IN  GeneratesRoles(cps[p]) =>
               /\ Cardinality(TheClusterRoles(store, p)) > 1 =>
                    /\ Reduced(TheClusterRoles(store, p), TheClusterRoles(cr.ctx.store, p), cr)
                    /\ NoopOrUpdated(ensureClusterRole(After(cr), p, g.clusterRole))
               /\ i # 0 =>
                    /\ Cardinality(TheRoles(rs.ctx.store, p, w[i])) = 1
                    /\ TheRoles(rs.ctx.store, p, w[i]) \subseteq TheRoles(store, p, w[i])
                    /\ rs.ctx.err # NoErr
                    /\ \A k \in CreatesOrPatches(rs.ctx.calls) :
                         \E j \in 1..(i - 1) : rs.ctx.calls[k].ns = w[j] /\ w[j] # w[i]
                    /\ IF FirstDuplicate(rs.ctx.store, p, w) = 0
                       THEN next.ctx.err = NoErr
                       ELSE next.ctx.err # NoErr
    /\ \A name \in Names :
         LET r == ensureClusterRoleBinding(Now, p, name)
             next == ensureClusterRoleBinding(After(r), p, name)
         IN  Cardinality(TheClusterRoleBindings(store, p)) > 1 =>
               /\ Reduced(TheClusterRoleBindings(store, p),
                          TheClusterRoleBindings(r.ctx.store, p), r)
               /\ AfterBindingsReduced(TheClusterRoleBindings(r.ctx.store, p), name, next,
                                       TheClusterRoleBindings(next.ctx.store, p))
    /\ \A name \in Names, ns \in Namespaces :
         LET r == ensureRoleBinding(Now, p, NN(ns, name))
             next == ensureRoleBinding(After(r), p, NN(ns, name))
         IN  Cardinality(TheRoleBindings(store, p, ns)) > 1 =>
               /\ Reduced(TheRoleBindings(store, p, ns), TheRoleBindings(r.ctx.store, p, ns), r)
               /\ AfterBindingsReduced(TheRoleBindings(r.ctx.store, p, ns), name, next,
                                       TheRoleBindings(next.ctx.store, p, ns))

\* A pass has just reduced duplicate RoleBindings to one that names a Role
\* which is no longer the Role of its namespace.
C2_StaleBindingLeft ==
  /\ last.op = "ensureRolesAndClusterRoles"
  /\ last.err = "number of roleBindings reduced"
  /\ \E i \in DOMAIN last.calls :
       last.calls[i].verb = "delete" /\ last.calls[i].kind = "RoleBinding"
  /\ \E ns \in Namespaces :
       /\ Cardinality(TheRoleBindings(store, last.p, ns)) = 1
       /\ \A b \in TheRoleBindings(store, last.p, ns) :
            \A r \in TheRoles(store, last.p, ns) : b.ref # r.id

\* Every (parent, kind, namespace) holds at most one child.
AtMostOne(S) ==
  \A p \in DOMAIN cps, kind \in Kinds, ns \in Namespaces \cup {NoNs} :
    Cardinality({o \in Select(S, kind, p, NoNs) : o.ns = ns}) <= 1

\* Every create of a pass comes right after a listing of that kind and
\* namespace that returned nothing.
CreatesAfterEmptyListing(calls) ==
  \A i \in DOMAIN calls :
    calls[i].verb = "create" =>
      /\ i > 1
      /\ calls[i - 1].verb = "list" /\ calls[i - 1].n = 0
      /\ calls[i - 1].kind = calls[i].kind /\ calls[i - 1].ns = calls[i].ns

\* C3: an operation issues Create for a kind (and namespace) only after its
\* listing for that kind (and namespace) returned no child in the same pass;
\* so no step but an external creation takes the store from at most one
\* child per (parent, kind, namespace) to more than one, also when the watch
\* list names a namespace twice.
C3_AtMostOne ==
  [][/\ CreatesAfterEmptyListing(last'.calls)
     /\ (AtMostOne(store) /\ ~(last'.op = "env" /\ Cardinality(store') > Cardinality(store)))
          => AtMostOne(store')]_vars

\* A pass under a watch list that names a namespace twice has just created
\* the Role of that namespace, once.
C3_OneRoleForTwoEntries ==
  /\ last.op = "ensureRolesAndClusterRoles" /\ last.err = NoErr
  /\ watch[last.p] = <<"a", "a">>
  /\ \E i \in DOMAIN last.calls :
       last.calls[i].verb = "create" /\ last.calls[i].kind = "Role"
  /\ Cardinality(TheRoles(store, last.p, "a")) = 1
  /\ AtMostOne(store)

\* ------------------------------------------------------------------ re-invocation, isolation

\* The RBAC children of p are the generated ones, one of each: a ClusterRole,
\* a ClusterRoleBinding that names it, and in every watched namespace a Role
\* and a RoleBinding that names it.
GrantsInPlace(p) ==
  LET g == generateRoleAndClusterRole(cps[p], p, watch[p]) IN
  /\ Cardinality(TheClusterRoles(store, p)) = 1
  /\ Cardinality(TheClusterRoleBindings(store, p)) = 1
  /\ \A cr \in TheClusterRoles(store, p) :
       /\ cr = [g.clusterRole EXCEPT !.id = cr.id]
       /\ \A crb \in TheClusterRoleBindings(store, p) :
            crb = [GenerateNewClusterRoleBindingForControlPlane(p, cr.id) EXCEPT !.id = crb.id]
  /\ \A i \in DOMAIN watch[p] :
       LET ns == watch[p][i] IN
       /\ Cardinality(TheRoles(store, p, ns)) = 1
       /\ Cardinality(TheRoleBindings(store, p, ns)) = 1
       /\ \A r \in TheRoles(store, p, ns) :
            /\ r = [g.roles[i] EXCEPT !.id = r.id]
            /\ \A rb \in TheRoleBindings(store, p, ns) :
                 rb = [GenerateNewRoleBindingForControlPlane(p, NN(ns, r.id)) EXCEPT !.id = rb.id]

\* The grants are in place and a pass returns Noop and writes nothing.
Settled ==
  \A p \in DOMAIN cps :
    /\ GrantsInPlace(p)
    /\ Quiet(ensureRolesAndClusterRoles(Now, cps[p], p, watch[p]))

\* C4: passes of ensureRolesAndClusterRoles over a fixed parent and watch
\* list, any of which may be aborted by the failure of one store call with
\* the writes before it standing, reach, once re-invoked without failure, a
\* state with exactly one ClusterRole, one ClusterRoleBinding and one Role and
\* one RoleBinding per watched namespace, all equal to the generated ones, in
\* which a pass returns Noop; and every pass from then on returns Noop.
C4_SafeReinvocation == <>[]Settled

\* A pass has just been aborted by a failed store call after it had written.
C4_AbortedAfterWrite ==
  /\ last.op = "ensureRolesAndClusterRoles"
  /\ last.err = "store call failed"
  /\ last.args.failAt = Len(last.calls)
  /\ \E i \in Writes(last.calls) : i < Len(last.calls)
  /\ ~Settled

\* The children of p in a store.
Owned(S, p) == {o \in S : o.owner = p}

\* A pass r for p against the store, compared with the same pass against
\* the children of p alone: it patches and deletes only children of p,
\* leaves the children of every other parent as they are, and does to the
\* children of p what it does alone.
Isolated(p, r, alone) ==
  /\ \A i \in Writes(r.ctx.calls) :
       r.ctx.calls[i].old.owner \in {p, NoObj.owner} /\ r.ctx.calls[i].new.owner \in {p, NoObj.owner}
  /\ \A q \in DOMAIN cps \ {p} : Owned(r.ctx.store, q) = Owned(store, q)
  /\ Owned(r.ctx.store, p) = alone.ctx.store
  /\ r.res = alone.res /\ r.ctx.err = alone.ctx.err /\ r.ctx.calls = alone.ctx.calls

\* The store calls of a pass that may fail: none, or one of the first calls.
MaxCalls == 12

\* C5: a pass for parent p, whatever store call of it fails, selects only
\* children of p: it patches and deletes no child of another parent (the
\* cluster-scoped kinds and the pruned Roles and RoleBindings included),
\* leaves the children of the other parent unchanged, and leaves the children
\* of p as the same pass does when the store holds the children of p alone;
\* so every interleaving of the passes of two parents leaves each parent's
\* children as its own passes alone do.
C5_Isolation ==
  \A p \in DOMAIN cps, failAt \in 0..MaxCalls :
    LET c == Ctx(store, nextId, failAt)
        a == Ctx(Owned(store, p), nextId, failAt)
    IN
    /\ \A enforce \in BOOLEAN :
         Isolated(p, ensureDeployment(c, cps[p], p, enforce),
                  ensureDeployment(a, cps[p], p, enforce))
    /\ Isolated(p, ensureServiceAccount(c, p), ensureServiceAccount(a, p))
    /\ Isolated(p, ensureAdmissionWebhookService(c, cps[p], p),
                ensureAdmissionWebhookService(a, cps[p], p))
    /\ \A enforce \in BOOLEAN, ca \in CaBundles :
         Isolated(p, ensureValidatingWebhookConfiguration(c, cps[p], p, ca, enforce),
                  ensureValidatingWebhookConfiguration(a, cps[p], p, ca, enforce))
    /\ Isolated(p, ensureRolesAndClusterRoles(c, cps[p], p, watch[p]),
                ensureRolesAndClusterRoles(a, cps[p], p, watch[p]))

\* A pass for one parent has just pruned its Role of a namespace in which
\* the other parent keeps a Role.
C5_PrunedBesideTheOther ==
  /\ last.op = "ensureRolesAndClusterRoles" /\ last.err = NoErr
  /\ \E i \in DOMAIN last.calls, q \in DOMAIN cps \ {last.p} :
       /\ last.calls[i].verb = "delete" /\ last.calls[i].kind = "Role"
       /\ last.calls[i].old.owner = last.p
       /\ TheRoles(store, q, last.calls[i].ns) # {}
       /\ TheRoles(store, last.p, last.calls[i].ns) = {}

\* ------------------------------------------------------------------ stale bindings

\* What a pass does to the one binding b of its listing when b names another
\* role than the one asked for: r is the pass, next the pass after it, and
\* left the bindings of the listing after each.  The pass deletes b, writes
\* nothing else and returns an error; the next pass creates the binding that
\* names the role asked for.
DeletedAndRecreated(b, name, r, left, next, created) ==
  /\ r.ctx.err # NoErr
  /\ Writes(r.ctx.calls) # {}
  /\ \A i \in Writes(r.ctx.calls) :
       r.ctx.calls[i].verb = "delete" /\ r.ctx.calls[i].old = b
  /\ r.ctx.store = store \ {b}
  /\ left = {}
  /\ next.res = "Created" /\ next.ctx.err = NoErr
  /\ Cardinality(created) = 1
  /\ \A n \in created : n.ref = name /\ n.id # b.id

\* The bindings of the store keep their role reference through the step.
RoleRefKept ==
  \A o \in store, n \in store' :
    ( /\ o.kind \in {"ClusterRoleBinding", "RoleBinding"}
      /\ n.kind = o.kind /\ n.ns = o.ns /\ n.id = o.id )
    => n.ref = o.ref

\* C11: when the one RoleBinding (ClusterRoleBinding) of a listing names a
\* role other than the role asked for, a pass in which no store call fails
\* deletes the binding without patching it and returns an error, and the
\* pass after it finds no binding and creates one that names the role asked
\* for; and no step changes the role reference of a stored binding.
C11_StaleBinding ==
  /\ [](\A p \in DOMAIN cps, name \in Names :
          /\ \A b \in TheClusterRoleBindings(store, p) :
               (TheClusterRoleBindings(store, p) = {b} /\ b.ref # name) =>
                 LET r == ensureClusterRoleBinding(Now, p, name)
                     next == ensureClusterRoleBinding(After(r), p, name)
                 IN  DeletedAndRecreated(b, name, r,
                                         TheClusterRoleBindings(r.ctx.store, p), next,
                                         TheClusterRoleBindings(next.ctx.store, p))
          /\ \A ns \in Namespaces :
               \A b \in TheRoleBindings(store, p, ns) :
                 (TheRoleBindings(store, p, ns) = {b} /\ b.ref # name) =>
                   LET r == ensureRoleBinding(Now, p, NN(ns, name))
                       next == ensureRoleBinding(After(r), p, NN(ns, name))
                   IN  DeletedAndRecreated(b, name, r,
                                           TheRoleBindings(r.ctx.store, p, ns), next,
                                           TheRoleBindings(next.ctx.store, p, ns)))
  /\ [][RoleRefKept]_vars

\* A pass has just deleted the ClusterRoleBinding that named a ClusterRole
\* other than the one in the store, and returned the error.
C11_StaleClusterRoleBindingDeleted ==
  /\ last.op = "ensureRolesAndClusterRoles"
  /\ last.err = "name of ClusterRole changed, out of date ClusterRoleBinding deleted"
  /\ TheClusterRoleBindings(store, last.p) = {}
  /\ \E i \in DOMAIN last.calls :
       /\ last.calls[i].verb = "delete" /\ last.calls[i].kind = "ClusterRoleBinding"
       /\ \E cr \in TheClusterRoles(store, last.p) : last.calls[i].old.ref # cr.id

\* ------------------------------------------------------------------ RBAC partitioning

\* Largest number of rules in a ClusterRole template and of resources in
\* one rule.
MaxRules == 1
MaxResources == 2

\* API groups ("" is the core group), the versions the cluster serves them
\* in, resources and verbs of the template rules.
APIGroups == {"", "apps"}
GroupVersions ==
  {[group |-> "", version |-> "v1"], [group |-> "apps", version |-> "v1"],
   [group |-> "apps", version |-> "v2"]}
Resources == {"configmaps", "namespaces", "widgets"}
VerbSets == {{"get"}, {"get", "create"}}

\* rbacv1.PolicyRule.
PolicyRule(apiGroups, resources, verbs) ==
  [apiGroups |-> apiGroups, resources |-> resources, verbs |-> verbs]

\* metav1.APIResource.
APIResource(group, name, namespaced) ==
  [group |-> group, name |-> name, namespaced |-> namespaced]

\* Sequences over S without repetition, of length 1..n.
SeqsOf(S, n) ==
  UNION {{s \in [1..k -> S] : \A i, j \in 1..k : i # j => s[i] # s[j]} : k \in 1..n}

\* The rules a template may hold, and the templates.
PolicyRules ==
  {PolicyRule(g, r, v) : g \in SeqsOf(APIGroups, 2) \ {<<"apps", "">>},
                         r \in SeqsOf(Resources, MaxResources), v \in VerbSets}
Templates == {<<>>} \cup UNION {[1..k -> PolicyRules] : k \in 1..MaxRules}

\* The resources a group version may list.
Listable(gv) ==
  CASE gv.group = "" -> {"configmaps", "namespaces"}
    [] gv.version = "v1" -> {"configmaps", "widgets"}
    [] OTHER -> {"widgets"}

\* The discovery mappings: every group version lists some of its resources,
\* each as namespaced or cluster-scoped; the APIResource entries carry the
\* group of their list or, in all lists, leave it empty.
Scopes == {"absent", "namespaced", "cluster"}
Discoveries ==
  {[gv \in GroupVersions |->
      {APIResource(IF filled THEN gv.group ELSE "", n, sc[gv][n] = "namespaced") :
         n \in {m \in Listable(gv) : sc[gv][m] # "absent"}}] :
     sc \in {f \in [GroupVersions -> [Resources -> Scopes]] :
               \A gv \in GroupVersions :
                 \A n \in Resources \ Listable(gv) : f[gv][n] = "absent"},
     filled \in BOOLEAN}

\* Lines 732-743: the scopes under which the entries of the mapping report
\* the resource for the API group.  The group versions are the keys of a Go
\* map, ranged over in no fixed order until one lists the resource: any
\* group version that lists it may be the one found.
Found(mapping, apiGroup, resource) ==
  {apires.namespaced :
     apires \in UNION {{a \in mapping[gv] : a.group = apiGroup /\ a.name = resource} :
                         gv \in {g \in DOMAIN mapping : g.group = apiGroup}}}

\* The rule appended with the resources it had.
Unrestricted(rule, resource) == rule

\* Line 749: rule.Resources = []string{resource}.
Restricted(rule, resource) == [rule EXCEPT !.resources = <<resource>>]

\* The loop variables of processClusterRole: the two slices being built and
\* `rule`, the copy of the template rule the loops work on.
Acc(rolePolicyRules, clusterRolePolicyRules, rule) ==
  [rolePolicyRules |-> rolePolicyRules, clusterRolePolicyRules |-> clusterRolePolicyRules,
   rule |-> rule]

\* Lines 731-765, the body of the loop over the resources: the outcomes for
\* one resource under one API group.  A resource that is found narrows
\* `rule` to itself and the rule is appended to the slice of its scope; a
\* resource that is not found appends `rule` as it stands.
perResource(acc, mapping, apiGroup, resource) ==
  LET found == Found(mapping, apiGroup, resource) IN
  IF found = {}
  THEN {[acc EXCEPT !.clusterRolePolicyRules = Append(@, acc.rule)]}
  ELSE {LET rule == Restricted(acc.rule, resource) IN
        IF namespaced
        THEN [acc EXCEPT !.rule = rule, !.rolePolicyRules = Append(@, rule)]
        ELSE [acc EXCEPT !.rule = rule, !.clusterRolePolicyRules = Append(@, rule)] :
          namespaced \in found}

\* Line 730: for _, resource := range rule.Resources, over the slice
\* rule.Resources held when the loop was entered.
RECURSIVE resourcesLoop(_, _, _, _, _)
resourcesLoop(accs, mapping, apiGroup, resources, i) ==
  IF i > Len(resources)
  THEN accs
  ELSE resourcesLoop(UNION {perResource(a, mapping, apiGroup, resources[i]) : a \in accs},
                     mapping, apiGroup, resources, i + 1)

\* Line 729: for _, apiGroup := range rule.APIGroups; the loop over the
\* resources is entered anew, with the rule.Resources of that moment, for
\* every API group.
RECURSIVE apiGroupsLoop(_, _, _, _)
apiGroupsLoop(accs, mapping, apiGroups, j) ==
  IF j > Len(apiGroups)
  THEN accs
  ELSE apiGroupsLoop(UNION {resourcesLoop({a}, mapping, apiGroups[j], a.rule.resources, 1) :
                              a \in accs},
                     mapping, apiGroups, j + 1)

\* Line 726: for _, rule := range generated.Rules; `rule` is a copy of the
\* template rule.
RECURSIVE rulesLoop(_, _, _, _)
rulesLoop(accs, mapping, rules, k) ==
  IF k > Len(rules)
  THEN accs
  ELSE rulesLoop(UNION {apiGroupsLoop({[a EXCEPT !.rule = rules[k]]}, mapping,
                                      rules[k].apiGroups, 1) : a \in accs},
                 mapping, rules, k + 1)

\* processClusterRole, lines 722-770: the results it may return for the
\* rules of a template and a discovery mapping.
processClusterRole(rules, mapping) ==
  {[rolePolicyRules |-> a.rolePolicyRules, clusterRolePolicyRules |-> a.clusterRolePolicyRules] :
     a \in rulesLoop({Acc(<<>>, <<>>, PolicyRule(<<>>, <<>>, {}))}, mapping, rules, 1)}

\* ------------------------------------------------------------------ RBAC partitioning: steps

\* processClusterRole is called on the template and the mapping.
ProcessClusterRole ==
  /\ family = "Partition"
  /\ \E r \in processClusterRole(templateRules, gvl) :
       /\ policyRules' = r
       /\ last' = [InitStep EXCEPT !.op = "processClusterRole"]
  /\ UNCHANGED <<family, cps, watch, store, nextId, env, templateRules, gvl, grantVars, konnectVars>>

\* The template of the ClusterRole and the discovery mapping of the cluster.
InitPartition ==
  /\ family = "Partition"
  /\ cps = [p \in {"cp1"} |-> InitSpec]
  /\ watch = [p \in {"cp1"} |-> <<"a">>]
  /\ store = {}
  /\ nextId = [k \in Kinds \X (Namespaces \cup {NoNs}) |-> 1]
  /\ env = 0
  /\ last = InitStep
  /\ templateRules \in Templates
  /\ gvl \in Discoveries
  /\ policyRules = [rolePolicyRules |-> <<>>, clusterRolePolicyRules |-> <<>>]
  /\ NoValidation
  /\ NoKonnect

NextPartition == ProcessClusterRole

SpecPartition == InitPartition /\ [][NextPartition]_vars

\* ------------------------------------------------------------------ RBAC partitioning: properties

\* The resources named by the rules of a slice.
ResourcesOf(rules) == UNION {Range(rules[k].resources) : k \in DOMAIN rules}

\* C12, as the specification states it: whatever processClusterRole returns
\* for the template and the discovery mapping, the resources of the
\* namespaced rules together with the resources of the cluster rules are the
\* resources of the template's rules.
C12_PartitionExhaustive ==
  \A r \in processClusterRole(templateRules, gvl) :
    ResourcesOf(r.rolePolicyRules) \cup ResourcesOf(r.clusterRolePolicyRules)
      = ResourcesOf(templateRules)

\* C13, as the specification states it: for every template rule, every API
\* group of it and every resource of it that the discovery mapping does not
\* list under that group, processClusterRole returns a cluster rule that
\* contains the resource.
C13_FailOpen ==
  \A r \in processClusterRole(templateRules, gvl) :
    \A k \in DOMAIN templateRules :
      \A apiGroup \in Range(templateRules[k].apiGroups),
         resource \in Range(templateRules[k].resources) :
        Found(gvl, apiGroup, resource) = {} =>
          \E i \in DOMAIN r.clusterRolePolicyRules :
            resource \in Range(r.clusterRolePolicyRules[i].resources)

\* C14: every rule processClusterRole returns among the namespaced rules
\* names exactly one resource, is a copy of a template rule that names the
\* resource, with its API groups and verbs, and the discovery mapping
\* reports the resource as namespaced under an API group of the rule.
C14_NamespacedRules ==
  \A r \in processClusterRole(templateRules, gvl) :
    \A i \in DOMAIN r.rolePolicyRules :
      LET rule == r.rolePolicyRules[i] IN
      /\ Len(rule.resources) = 1
      /\ \E apiGroup \in Range(rule.apiGroups) : TRUE \in Found(gvl, apiGroup, rule.resources[1])
      /\ \E k \in DOMAIN templateRules :
           /\ rule.resources[1] \in Range(templateRules[k].resources)
           /\ rule.apiGroups = templateRules[k].apiGroups
           /\ rule.verbs = templateRules[k].verbs

\* processClusterRole has just returned a namespaced rule for one of the two
\* resources of a template rule.
C14_OneOfTwoResources ==
  /\ last.op = "processClusterRole"
  /\ \E i \in DOMAIN policyRules.rolePolicyRules, k \in DOMAIN templateRules :
       /\ Len(templateRules[k].resources) = 2
       /\ policyRules.rolePolicyRules[i] =
            Restricted(templateRules[k], policyRules.rolePolicyRules[i].resources[1])

\* ------------------------------------------------------------------ watch namespace grants

\* Largest number of from entries of a grant, of grants in the store when
\* validation starts, and of validateWatchNamespaceGrants calls in one run.
MaxFrom == 2
MaxGrants == 2
MaxValidations == 3

\* operatorv1beta1.SchemeGroupVersion.Group.
OperatorGroup == "gateway-operator.konghq.com"

\* Namespaces a spec may list and grants may live in: the ControlPlanes' own
\* ("a") and two others.
GrantNamespaces == {"a", "b", "c"}

\* operatorv1alpha1.WatchNamespaceGrantFrom.
From(group, kind, namespace) == [group |-> group, kind |-> kind, namespace |-> namespace]

\* The from entries of the grants: the one that names the ControlPlanes of
\* namespace "a", and entries that differ from it in one field.
FromEntries ==
  {From(OperatorGroup, "ControlPlane", "a"), From("gateway.networking.k8s.io", "ControlPlane", "a"),
   From(OperatorGroup, "DataPlane", "a"), From(OperatorGroup, "ControlPlane", "b")}

\* The subsets of S with at most n elements.
RECURSIVE SubsetsUpTo(_, _)
SubsetsUpTo(S, n) ==
  IF n = 0 THEN {{}}
  ELSE LET T == SubsetsUpTo(S, n - 1) IN T \cup {t \cup {x} : t \in T, x \in S}

\* operatorv1alpha1.WatchNamespaceGrant: its namespace and spec.from.
Grant(ns, from) == [ns |-> ns, from |-> from]
Grants == {Grant(ns, from) : ns \in GrantNamespaces, from \in SubsetsUpTo(FromEntries, MaxFrom)}

\* spec.watchNamespaces: nil, or a type and a list.
WatchNamespaces(type, list) == [type |-> type, list |-> list]
WatchTypes == {"all", "own", "list", "unexpected"}
NamespaceLists ==
  {<<>>, <<"a">>, <<"b">>, <<"b", "c">>, <<"c", "b">>, <<"a", "b">>, <<"b", "a">>, <<"b", "b">>}
WatchSpecs == Ptr({WatchNamespaces(t, l) : t \in WatchTypes, l \in NamespaceLists})

\* What validateWatchNamespaceGrants returns, with the pass so far.
Validated(c, nsList) == [ctx |-> c, nsList |-> nsList]

\* Lines 1244-1248: the from entry names the ControlPlane's group, kind and
\* namespace.
FromMatches(from, p) ==
  from.group = OperatorGroup /\ from.kind = "ControlPlane" /\ from.namespace = CpNamespace(p)

\* A grant none of whose from entries is looked at.
GrantedByAnyone(refGrant, p) == TRUE

\* Lines 1243-1252: lo.ContainsBy over refGrant.Spec.From.
GrantedBy(refGrant, p) == \E from \in refGrant.from : FromMatches(from, p)

\* Line 1239: cl.List(ctx, &grants, client.InNamespace(ns)).
GrantsIn(S, ns) == {g \in S : g.ns = ns}

\* ensureWatchNamespaceGrantsForNamespace, lines 1232-1254.
ensureWatchNamespaceGrantsForNamespace(c, p, ns) ==
  IF Failing(c)
  THEN Fail(Logged(c, Call("list", "WatchNamespaceGrant", ns, 0, NoObj, NoObj)),
            "failed listing WatchNamespaceGrants in namespace " \o ns)
  ELSE
    LET items == GrantsIn(c.store, ns)
        d == Logged(c, Call("list", "WatchNamespaceGrant", ns, Cardinality(items), NoObj, NoObj))
    IN  IF \E refGrant \in items : GrantedBy(refGrant, p)
        THEN d
        ELSE Fail(d, "WatchNamespaceGrant in Namespace " \o ns
                       \o " to ControlPlane in Namespace " \o CpNamespace(p) \o " not found")

\* validateWatchNamespaceGrants taking every listed namespace for granted
\* once the first one is.
RECURSIVE listLoopFirstOnly(_, _, _, _, _)
listLoopFirstOnly(c, p, list, i, nsList) ==
  IF i > Len(list)
  THEN Validated(c, nsList)
  ELSE IF i > 1 THEN listLoopFirstOnly(c, p, list, i + 1, Append(nsList, list[i]))
  ELSE LET d == ensureWatchNamespaceGrantsForNamespace(c, p, list[i]) IN
       IF d.err # NoErr
       THEN Validated(d, nsList)
       ELSE listLoopFirstOnly(d, p, list, i + 1, Append(nsList, list[i]))

\* Lines 1208-1214: the loop over spec.watchNamespaces.list.
RECURSIVE listLoop(_, _, _, _, _)
listLoop(c, p, list, i, nsList) ==
  IF i > Len(list)
  THEN Validated(c, nsList)
  ELSE LET d == ensureWatchNamespaceGrantsForNamespace(c, p, list[i]) IN
       IF d.err # NoErr
       THEN Validated(d, nsList)
       ELSE listLoop(d, p, list, i + 1, Append(nsList, list[i]))

\* The list case returning the listed namespaces alone.
caseListWithoutOwn(c, p, w) == listLoop(c, p, w.list, 1, <<>>)

\* Lines 1207-1221, case WatchNamespacesTypeList: the listed namespaces, each
\* with its grant, and then the ControlPlane's own namespace.
caseList(c, p, w) ==
  LET l == listLoop(c, p, w.list, 1, <<>>) IN
  IF l.ctx.err # NoErr THEN l ELSE Validated(l.ctx, Append(l.nsList, CpNamespace(p)))

\* The all case asking for the grants of the listed namespaces.
caseAllAsList(c, p, w) == caseListWithoutOwn(c, p, w)

\* Lines 1199-1203, case WatchNamespacesTypeAll.
caseAll(c, p, w) == Validated(c, <<>>)

\* The own case asking for the grants of the listed namespaces as well.
caseOwnAsList(c, p, w) == caseList(c, p, w)

\* Lines 1204-1206, case WatchNamespacesTypeOwn.
caseOwn(c, p, w) == Validated(c, <<CpNamespace(p)>>)

\* Reconciler.validateWatchNamespaceGrants, lines 1191-1225.
validateWatchNamespaceGrants(c, p, wn) ==
  IF wn = {}
  THEN Validated(Fail(c, "spec.watchNamespaces cannot be empty"), <<>>)
  ELSE
    LET w == CHOOSE x \in wn : TRUE IN
    CASE w.type = "all" -> caseAll(c, p, w)
      [] w.type = "own" -> caseOwn(c, p, w)
      [] w.type = "list" -> caseList(c, p, w)
      [] OTHER -> Validated(Fail(c, "unexpected watchNamespaces.type: " \o w.type), <<>>)

\* ------------------------------------------------------------------ watch namespace grants: steps

\* validateWatchNamespaceGrants is called for a ControlPlane; any one of its
\* listings may fail.
ValidateWatchNamespaceGrants ==
  /\ family = "Grants"
  /\ Len(validated) < MaxValidations
  /\ \E p \in DOMAIN watchNamespaces :
      \E failAt \in FailAts(validateWatchNamespaceGrants(Ctx(grants, nextId, 0), p,
                                                         watchNamespaces[p])) :
        \E r \in {validateWatchNamespaceGrants(Ctx(grants, nextId, failAt), p,
                                               watchNamespaces[p])} :
          /\ validated' = Append(validated, [nsList |-> r.nsList, err |-> r.ctx.err])
          /\ env' = IF failAt = 0 THEN env ELSE env + 1
          /\ last' = [op |-> "validateWatchNamespaceGrants", p |-> p,
                      args |-> [NoArgs EXCEPT !.failAt = failAt], res |-> "Noop",
                      err |-> r.ctx.err, calls |-> r.ctx.calls]
  /\ UNCHANGED <<family, cps, watch, store, nextId, rbacVars, grants, watchNamespaces, konnectVars>>

\* The grants in the store change.
GrantsChange(S) ==
  /\ family = "Grants"
  /\ env < MaxEnv
  /\ env' = env + 1
  /\ grants' = S
  /\ last' = EnvStep
  /\ UNCHANGED <<family, cps, watch, store, nextId, rbacVars, watchNamespaces, validated, konnectVars>>

\* The owner of a namespace creates a grant in it.
CreateGrant == \E g \in Grants \ grants : GrantsChange(grants \cup {g})

\* A grant is deleted.
DeleteGrant == \E g \in grants : GrantsChange(grants \ {g})

InitGrantsWith(G, wn, disturbances) ==
  /\ family = "Grants"
  /\ cps = [p \in {"cp1"} |-> InitSpec]
  /\ watch = [p \in {"cp1"} |-> <<>>]
  /\ store = {}
  /\ nextId = [k \in Kinds \X (Namespaces \cup {NoNs}) |-> 1]
  /\ env = disturbances
  /\ last = InitStep
  /\ NoPartition
  /\ NoKonnect
  /\ grants = G
  /\ watchNamespaces = [p \in {"cp1"} |-> wn]
  /\ validated = <<>>

\* Validation starts from any spec.watchNamespaces and any few grants, and
\* nothing else happens; or from a list and no grant, with grants created
\* and deleted and listings failing, twice in all.
InitGrants ==
  \/ \E G \in SubsetsUpTo(Grants, MaxGrants), wn \in WatchSpecs :
       InitGrantsWith(G, wn, MaxEnv)
  \/ \E l \in NamespaceLists : InitGrantsWith({}, {WatchNamespaces("list", l)}, MaxEnv - 2)

NextGrants ==
  \/ ValidateWatchNamespaceGrants
  \/ CreateGrant
  \/ DeleteGrant

SpecGrants == InitGrants /\ [][NextGrants]_vars

\* ------------------------------------------------------------------ watch namespace grants: properties

\* A call of validateWatchNamespaceGrants for p in which no listing fails.
Validation(p) == validateWatchNamespaceGrants(Ctx(grants, nextId, 0), p, watchNamespaces[p])

\* spec.watchNamespaces of p is of the type.
WatchType(p, type) == \E w \in watchNamespaces[p] : w.type = type

\* The namespaces spec.watchNamespaces of p lists.
Listed(p) ==
  IF watchNamespaces[p] = {} THEN <<>>
  ELSE LET w == CHOOSE x \in watchNamespaces[p] : TRUE IN w.list

\* Some grant located in ns has a from entry of the operator's group, of
\* kind ControlPlane and of the namespace of p.
Authorized(ns, p) ==
  \E g \in grants :
    /\ g.ns = ns
    /\ \E from \in g.from :
         /\ from.group = "gateway-operator.konghq.com"
         /\ from.kind = "ControlPlane"
         /\ from.namespace = CpNamespace(p)

\* The error that names the namespace whose grant is missing.
GrantMissing(ns, p) ==
  "WatchNamespaceGrant in Namespace " \o ns \o " to ControlPlane in Namespace "
    \o CpNamespace(p) \o " not found"

\* The places of the list whose namespace has no grant for p.
Unauthorized(p) == {i \in DOMAIN Listed(p) : ~Authorized(Listed(p)[i], p)}

\* C15: in watch mode List, when some listed namespace has no grant
\* matching the ControlPlane, validateWatchNamespaceGrants returns the error
\* that names the first such namespace in list order, having looked up the
\* namespaces of the list up to that one and none after it.
C15_MissingGrantNamed ==
  \A p \in DOMAIN watchNamespaces :
    (WatchType(p, "list") /\ Unauthorized(p) # {}) =>
      LET r == Validation(p)
          first == CHOOSE i \in Unauthorized(p) : \A j \in Unauthorized(p) : i <= j
      IN  /\ r.ctx.err = GrantMissing(Listed(p)[first], p)
          /\ Len(r.ctx.calls) = first
          /\ \A i \in 1..first :
               r.ctx.calls[i].verb = "list" /\ r.ctx.calls[i].ns = Listed(p)[i]

\* A call for the list b, c has just failed naming c, with a grant in b and
\* none in c.
C15_SecondNamespaceNamed ==
  /\ last.op = "validateWatchNamespaceGrants" /\ last.args.failAt = 0
  /\ Listed(last.p) = <<"b", "c">>
  /\ Authorized("b", last.p) /\ ~Authorized("c", last.p)
  /\ last.err = GrantMissing("c", last.p)
  /\ Len(last.calls) = 2

\* C16: in watch mode List, in every state the grants and earlier calls
\* lead to, a call of validateWatchNamespaceGrants in which no listing fails
\* returns no error exactly when every listed namespace has a matching grant
\* now, and then returns the listed namespaces in list order followed by the
\* ControlPlane's own namespace; and what the call just made returned is what
\* the grants of the store now give, whatever the calls before it returned.
C16_ListSuccessStateless ==
  \A p \in DOMAIN watchNamespaces :
    WatchType(p, "list") =>
      LET r == Validation(p) IN
      /\ r.ctx.err = NoErr <=> Unauthorized(p) = {}
      /\ r.ctx.err = NoErr => r.nsList = Listed(p) \o <<CpNamespace(p)>>
      /\ (last.op = "validateWatchNamespaceGrants" /\ last.p = p /\ last.args.failAt = 0) =>
           validated[Len(validated)] = [nsList |-> r.nsList, err |-> r.ctx.err]

\* Three calls for the list b: the first failed for the missing grant, the
\* second, after the grant was created, returned b and the own namespace,
\* the third, after the grant was deleted, failed again.
C16_FailedGrantedFailed ==
  /\ Len(validated) = 3
  /\ \E p \in DOMAIN watchNamespaces :
       /\ Listed(p) = <<"b">>
       /\ validated[1].err = GrantMissing("b", p)
       /\ validated[2] = [nsList |-> <<"b", CpNamespace(p)>>, err |-> NoErr]
       /\ validated[3].err = GrantMissing("b", p)

\* C17, as the specification states it: in watch mode List, when every
\* listed namespace other than the ControlPlane's own has a matching grant,
\* validateWatchNamespaceGrants returns no error and a list that holds the
\* own namespace, also when the own namespace is itself listed.
C17_OwnNamespaceNeedsNoGrant ==
  \A p \in DOMAIN watchNamespaces :
    ( /\ WatchType(p, "list")
      /\ \A i \in Unauthorized(p) : Listed(p)[i] = CpNamespace(p) )
    => LET r == Validation(p) IN
       r.ctx.err = NoErr /\ CpNamespace(p) \in Range(r.nsList)

\* C18: ensureWatchNamespaceGrantsForNamespace returns no error for a
\* namespace exactly when some grant located in that namespace has a from
\* entry of the operator's group, of kind ControlPlane and of the
\* ControlPlane's namespace; it lists the grants of that namespace only.
C18_GrantMatching ==
  \A p \in DOMAIN watchNamespaces, ns \in GrantNamespaces :
    LET d == ensureWatchNamespaceGrantsForNamespace(Ctx(grants, nextId, 0), p, ns) IN
    /\ d.err = NoErr <=> Authorized(ns, p)
    /\ d.err # NoErr => d.err = GrantMissing(ns, p)
    /\ Len(d.calls) = 1
    /\ d.calls[1].ns = ns
    /\ d.calls[1].n = Cardinality({g \in grants : g.ns = ns})

\* A call has just failed for namespace b although b holds a grant, whose
\* from entries name another group, kind or namespace, and another namespace
\* holds a grant that names the ControlPlane.
C18_OnlyOtherGrants ==
  /\ last.op = "validateWatchNamespaceGrants" /\ last.args.failAt = 0
  /\ last.err = GrantMissing("b", last.p)
  /\ \E g \in grants : g.ns = "b" /\ g.from # {}
  /\ Authorized("c", last.p)

\* C19: in watch mode All, whatever grants the store holds and whichever
\* listing would fail, validateWatchNamespaceGrants returns no error and an
\* empty list, and lists no grants.
C19_WatchAll ==
  \A p \in DOMAIN watchNamespaces :
    WatchType(p, "all") =>
      \A failAt \in 0..MaxGrants :
        LET r == validateWatchNamespaceGrants(Ctx(grants, nextId, failAt), p, watchNamespaces[p])
        IN  r.ctx.err = NoErr /\ r.nsList = <<>> /\ r.ctx.calls = <<>>

\* A call in mode All has just returned while the store holds a grant that
\* names the ControlPlane and the spec lists a namespace without one.
C19_AllWithGrants ==
  /\ last.op = "validateWatchNamespaceGrants"
  /\ WatchType(last.p, "all")
  /\ \E ns \in GrantNamespaces : Authorized(ns, last.p)
  /\ Unauthorized(last.p) # {}
  /\ validated[Len(validated)] = [nsList |-> <<>>, err |-> NoErr]

\* C20: in watch mode Own, whatever grants the store holds, whatever the
\* spec lists and whichever listing would fail, validateWatchNamespaceGrants
\* returns no error and the list of the ControlPlane's namespace alone, and
\* lists no grants.
C20_WatchOwn ==
  \A p \in DOMAIN watchNamespaces :
    WatchType(p, "own") =>
      \A failAt \in 0..MaxGrants :
        LET r == validateWatchNamespaceGrants(Ctx(grants, nextId, failAt), p, watchNamespaces[p])
        IN  r.ctx.err = NoErr /\ r.nsList = <<CpNamespace(p)>> /\ r.ctx.calls = <<>>

\* A call in mode Own has just returned the own namespace while the spec
\* lists namespaces without a grant.
C20_OwnWithList ==
  /\ last.op = "validateWatchNamespaceGrants"
  /\ WatchType(last.p, "own")
  /\ Unauthorized(last.p) # {}
  /\ validated[Len(validated)] = [nsList |-> <<CpNamespace(last.p)>>, err |-> NoErr]

\* ------------------------------------------------------------------ KonnectExtension: references in status
\* controller/konnect/konnectextension_controller_utils.go

\* Largest number of DataPlanes / ControlPlanes listed for one extension.
MaxDataPlanes == 2
MaxControlPlanes == 1
\* Passes of ensureExtendablesReferencesInStatus remembered since the
\* dependents or the stored extension were last changed by someone else.
MaxPasses == 3

\* Names are strings of bytes, compared as Go compares strings.
\* The separator of "%s/%s", line 150.
Slash == 47
Str_a == <<97>>
Str_b == <<98>>
Str_c == <<99>>
Str_a_b == <<97, 45, 98>>

\* Go's < on strings: bytewise, a proper prefix first.
RECURSIVE StrLess(_, _)
StrLess(s, t) ==
  IF t = <<>> THEN FALSE
  ELSE IF s = <<>> THEN TRUE
  ELSE IF Head(s) # Head(t) THEN Head(s) < Head(t)
  ELSE StrLess(Tail(s), Tail(t))

\* commonv1alpha1.NamespacedRef.
NamespacedRef(name, namespace) == [name |-> name, namespace |-> namespace]

\* metav1.Condition: the fields the reconciler reads.
Condition(type, status, reason) == [type |-> type, status |-> status, reason |-> reason]

KonnectExtensionAppliedType == "KonnectExtensionApplied"
ConditionStatuses == {"True", "False", "Unknown"}

\* A DataPlane or ControlPlane as listed: name, namespace, status.conditions
\* (at most one condition of a type).
Dependent(name, namespace, conditions) ==
  [name |-> name, namespace |-> namespace, conditions |-> conditions]

\* The namespace/name pairs of the dependents; an object list holds a
\* pair at most once.
DependentKeys ==
  {NamespacedRef(Str_b, Str_a), NamespacedRef(Str_c, Str_a_b), NamespacedRef(Str_c, Str_a)}

\* The conditions a dependent may carry.
ConditionSets ==
  {{}} \cup {{Condition(KonnectExtensionAppliedType, s, "")} : s \in ConditionStatuses}
       \cup {{Condition("Ready", "True", ""), Condition(KonnectExtensionAppliedType, "False", "")}}

Dependents == {Dependent(k.name, k.namespace, cs) : k \in DependentKeys, cs \in ConditionSets}

\* Object lists of at most n items, in any listing order.
RECURSIVE ListsUpTo(_)
ListsUpTo(n) ==
  IF n = 0 THEN {<<>>}
  ELSE LET shorter == ListsUpTo(n - 1) IN
       shorter \cup {Append(l, d) : l \in {s \in shorter : Len(s) = n - 1},
                                    d \in Dependents}

Keys(items) == {NamespacedRef(items[i].name, items[i].namespace) : i \in DOMAIN items}
ObjectLists(n) == {l \in ListsUpTo(n) : Cardinality(Keys(l)) = Len(l)}
DataPlaneLists == ObjectLists(MaxDataPlanes)
ControlPlaneLists == ObjectLists(MaxControlPlanes)

\* refToStr, lines 148-151.
refToStr(ref) == ref.namespace \o <<Slash>> \o ref.name

\* The comparison by namespace, then by name.
RefLessByPair(r1, r2) ==
  \/ StrLess(r1.namespace, r2.namespace)
  \/ r1.namespace = r2.namespace /\ StrLess(r1.name, r2.name)

\* The comparison of lines 152-154.
RefLess(r1, r2) == StrLess(refToStr(r1), refToStr(r2))

\* sort.Slice: the references in ascending order of the comparison.  The
\* sort is not stable, but no two references of a list compare equal.
RECURSIVE InsertRef(_, _)
InsertRef(sorted, ref) ==
  IF sorted = <<>> THEN <<ref>>
  ELSE IF RefLess(ref, Head(sorted)) THEN <<ref>> \o sorted
  ELSE <<Head(sorted)>> \o InsertRef(Tail(sorted), ref)

RECURSIVE sortRefs(_)
sortRefs(refs) ==
  IF refs = <<>> THEN <<>> ELSE InsertRef(sortRefs(Tail(refs)), Head(refs))

\* With any condition of status True taken for the applied condition.
hasAnyConditionTrue(conditions) == \E cond \in conditions : cond.status = "True"

\* hasExtensionAppliedCondition, lines 156-161.
hasExtensionAppliedCondition(conditions) ==
  \E cond \in conditions :
    cond.type = KonnectExtensionAppliedType /\ cond.status = "True"

\* The loops of lines 166-176 and 181-191: the references of the items that
\* carry the applied condition, in listing order.  Each iteration has its own
\* loop variable (Go 1.22 and later), so &dp.Namespace is the item's own.
RECURSIVE refsLoop(_)
refsLoop(items) ==
  IF items = <<>> THEN <<>>
  ELSE LET d == Head(items) IN
       IF ~hasExtensionAppliedCondition(d.conditions)
       THEN refsLoop(Tail(items))
       ELSE <<NamespacedRef(d.name, d.namespace)>> \o refsLoop(Tail(items))

\* KonnectExtensionStatus: the reference lists (nil is <<>>) and the rest.
ExtensionStatus(dpRefs, cpRefs, conditions) ==
  [dataPlaneRefs |-> dpRefs, controlPlaneRefs |-> cpRefs, conditions |-> conditions]

\* The extension: resourceVersion and status.
Extension(version, status) == [version |-> version, status |-> status]

\* What a pass of ensureExtendablesReferencesInStatus returns and does:
\* ctrl.Result.Requeue, the error, the outcome of the status update
\* ("none": no update issued), the extension as stored and as held.
RefsRet(requeue, err, update, stored, h) ==
  [requeue |-> requeue, err |-> err, update |-> update, ext |-> stored, held |-> h]

\* The status update that retries in place on a conflict.
statusUpdateRetrying(stored, h, failure) ==
  IF failure
  THEN RefsRet(FALSE, "failed to update KonnectExtension ControlPlane and DataPlane references in status",
               "failed", stored, h)
  ELSE LET written == Extension(stored.version + 1, h.status) IN
       RefsRet(TRUE, NoErr, "written", written, written)

\* Lines 199-206: Client.Status().Update with the held resourceVersion.
statusUpdate(stored, h, failure) ==
  IF failure
  THEN RefsRet(FALSE, "failed to update KonnectExtension ControlPlane and DataPlane references in status",
               "failed", stored, h)
  ELSE IF h.version # stored.version
  THEN RefsRet(TRUE, NoErr, "conflict", stored, h)
  ELSE LET written == Extension(stored.version + 1, h.status) IN
       RefsRet(TRUE, NoErr, "written", written, written)

\* The pass that updates the status whether or not it changed.
ensureExtendablesReferencesInStatusAlways(stored, extOld, dpItems, cpItems, failure) ==
  statusUpdate(stored,
    [extOld EXCEPT !.status.dataPlaneRefs = sortRefs(refsLoop(dpItems)),
                   !.status.controlPlaneRefs = sortRefs(refsLoop(cpItems))], failure)

\* KonnectExtensionReconciler.ensureExtendablesReferencesInStatus, lines
\* 141-207.  extOld is the extension the caller holds, stored the one in the
\* API server; failure: the update fails for another reason than a conflict.
ensureExtendablesReferencesInStatus(stored, extOld, dpItems, cpItems, failure) ==
  LET dpRefs == sortRefs(refsLoop(dpItems))
      cpRefs == sortRefs(refsLoop(cpItems))
      e == [extOld EXCEPT !.status.dataPlaneRefs = dpRefs,
                          !.status.controlPlaneRefs = cpRefs]
      shouldUpdate == e.status # extOld.status
  IN  IF ~shouldUpdate
      THEN RefsRet(FALSE, NoErr, "none", stored, e)
      ELSE statusUpdate(stored, e, failure)

\* What the reconciler leaves in `reply`; before: the status stored when the
\* pass began; passes: the outcomes of the passes made since someone else
\* last changed the dependents or the extension.
RefsReply(r, before, passes) ==
  [op |-> "ensureExtendablesReferencesInStatus", requeue |-> r.requeue, err |-> r.err,
   update |-> r.update, before |-> before, passes |-> passes]

NoReply ==
  [op |-> "init", requeue |-> FALSE, err |-> NoErr, update |-> "none",
   before |-> ExtensionStatus(<<>>, <<>>, {}), passes |-> <<>>]

\* The variables the KonnectExtension reconciler does not touch.
controlPlaneVars == <<family, cps, watch, store, nextId, last, rbacVars, grantVars>>

\* The reconciler fetches the extension at the start of a reconcile.
GetExtension ==
  /\ family = "References"
  /\ held # ext
  /\ held' = ext
  /\ UNCHANGED <<controlPlaneVars, env, ext, dependents, kgcps, cert, reply>>

\* A pass of ensureExtendablesReferencesInStatus over the listed dependents.
EnsureExtendablesReferencesInStatus ==
  /\ family = "References"
  /\ Len(reply.passes) < MaxPasses
  /\ \E failure \in BOOLEAN :
       LET r == ensureExtendablesReferencesInStatus(ext, held, dependents.dps,
                                                    dependents.cps, failure)
       IN  /\ failure => env < MaxEnv /\ r.update = "failed"
           /\ ext' = r.ext
           /\ held' = r.held
           /\ reply' = RefsReply(r, ext.status, Append(reply.passes, r.update))
           /\ env' = IF failure THEN env + 1 ELSE env
  /\ UNCHANGED <<controlPlaneVars, dependents, kgcps, cert>>

\* The statuses another writer may leave: a condition set or cleared, or the
\* DataPlane references replaced.
OtherStatuses(status) ==
  ({[status EXCEPT !.conditions = cs] : cs \in {{}, {Condition("Ready", "True", "")}}}
   \cup {[status EXCEPT !.dataPlaneRefs = refs] :
           refs \in {<<>>} \cup {<<k>> : k \in DependentKeys}}) \ {status}

\* Another writer updates the status of the extension.
ConcurrentStatusWrite ==
  /\ family = "References"
  /\ env < MaxEnv
  /\ \E status \in OtherStatuses(ext.status) : ext' = Extension(ext.version + 1, status)
  /\ env' = env + 1
  /\ reply' = [reply EXCEPT !.passes = <<>>]
  /\ UNCHANGED <<controlPlaneVars, held, dependents, kgcps, cert>>

\* One change of an object list: another listing order, the conditions of
\* one item, an item more or an item less.
OneEdit(l, m) ==
  \/ Len(m) = Len(l) /\ Range(m) = Range(l)
  \/ /\ Len(m) = Len(l)
     /\ \E i \in DOMAIN l :
          /\ \A j \in DOMAIN l \ {i} : m[j] = l[j]
          /\ m[i].name = l[i].name /\ m[i].namespace = l[i].namespace
  \/ Len(m) = Len(l) + 1 /\ SubSeq(m, 1, Len(l)) = l
  \/ /\ Len(m) + 1 = Len(l)
     /\ \E i \in DOMAIN l : m = SubSeq(l, 1, i - 1) \o SubSeq(l, i + 1, Len(l))

\* The DataPlanes or ControlPlanes of the extension change.
DependentsChange ==
  /\ family = "References"
  /\ env < MaxEnv
  /\ \/ \E m \in DataPlaneLists \ {dependents.dps} :
          /\ OneEdit(dependents.dps, m)
          /\ dependents' = [dependents EXCEPT !.dps = m]
     \/ \E m \in ControlPlaneLists \ {dependents.cps} :
          /\ OneEdit(dependents.cps, m)
          /\ dependents' = [dependents EXCEPT !.cps = m]
  /\ env' = env + 1
  /\ reply' = [reply EXCEPT !.passes = <<>>]
  /\ UNCHANGED <<controlPlaneVars, ext, held, kgcps, cert>>

\* A KonnectExtension just created: no references, no conditions.
InitExtension == Extension(1, ExtensionStatus(<<>>, <<>>, {}))

InitKonnect(f) ==
  /\ family = f
  /\ cps = [p \in {"cp1"} |-> InitSpec]
  /\ watch = [p \in {"cp1"} |-> <<>>]
  /\ store = {}
  /\ nextId = [k \in Kinds \X (Namespaces \cup {NoNs}) |-> 1]
  /\ last = InitStep
  /\ NoPartition
  /\ NoValidation

\* The dependents are any lists when all but one disturbance are spent, or
\* none with all disturbances to come.
InitReferences ==
  /\ InitKonnect("References")
  /\ ext = InitExtension
  /\ held = InitExtension
  /\ \/ /\ env = MaxEnv - 1
        /\ dependents \in [dps : DataPlaneLists, cps : ControlPlaneLists]
     \/ /\ env = 0
        /\ dependents = [dps |-> <<>>, cps |-> <<>>]
  /\ kgcps = <<>>
  /\ cert = <<>>
  /\ reply = NoReply

NextReferences ==
  \/ GetExtension
  \/ EnsureExtendablesReferencesInStatus
  \/ ConcurrentStatusWrite
  \/ DependentsChange

SpecReferences == InitReferences /\ [][NextReferences]_vars

\* ------------------------------------------------------------------ C21

\* The dependent carries the condition KonnectExtensionApplied = True.
Applied(d) == \E c \in d.conditions : c = Condition(KonnectExtensionAppliedType, "True", c.reason)

\* The references of the items of a list that carry it.
AppliedKeys(items) ==
  {NamespacedRef(items[i].name, items[i].namespace) : i \in {j \in DOMAIN items : Applied(items[j])}}

\* The last step was a pass (or the fetch after it) and it wrote the status.
JustWritten == reply.passes # <<>> /\ reply.update = "written"

\* The list holds exactly the references of the set, each once.
Holds(refs, keys) == Range(refs) = keys /\ Len(refs) = Cardinality(keys)

\* The passes ensureExtendablesReferencesInStatus can make in this state.
RefsPasses ==
  {ensureExtendablesReferencesInStatus(ext, held, dependents.dps, dependents.cps, failure) :
     failure \in BOOLEAN}

\* C21: the reference lists a pass computes hold exactly the DataPlanes
\* (ControlPlanes) of the input list whose condition KonnectExtensionApplied
\* is True, and when the status update succeeds these lists are the stored
\* ones, so that references stored earlier for dependents that no longer
\* qualify are gone.
C21_AppliedOnly ==
  /\ \A r \in RefsPasses :
       /\ Holds(r.held.status.dataPlaneRefs, AppliedKeys(dependents.dps))
       /\ Holds(r.held.status.controlPlaneRefs, AppliedKeys(dependents.cps))
       /\ r.update = "written" => r.ext.status = r.held.status
  /\ JustWritten =>
       /\ Holds(ext.status.dataPlaneRefs, AppliedKeys(dependents.dps))
       /\ Holds(ext.status.controlPlaneRefs, AppliedKeys(dependents.cps))

\* A pass has removed the stored reference of a DataPlane whose condition
\* is no longer True, and kept the one of a DataPlane that still qualifies.
C21_StaleReferenceRemoved ==
  /\ JustWritten
  /\ \E i \in DOMAIN dependents.dps :
       LET d == dependents.dps[i] IN
       /\ ~Applied(d)
       /\ d.conditions # {}
       /\ NamespacedRef(d.name, d.namespace) \in Range(reply.before.dataPlaneRefs)
       /\ NamespacedRef(d.name, d.namespace) \notin Range(ext.status.dataPlaneRefs)
  /\ ext.status.dataPlaneRefs # <<>>

\* ------------------------------------------------------------------ C22

\* The references are in ascending order of their "namespace/name" strings.
Sorted(refs) ==
  \A i, j \in DOMAIN refs : i < j => StrLess(refToStr(refs[i]), refToStr(refs[j]))

\* The listings of a set of objects in any order.
RECURSIVE Orderings(_)
Orderings(S) ==
  IF S = {} THEN {<<>>} ELSE UNION {{<<d>> \o l : l \in Orderings(S \ {d})} : d \in S}

Listings(items) == Orderings(Range(items))

\* C22: each reference list a pass computes is in ascending order of the
\* strings "namespace/name"; the same dependents listed in any other order
\* give the same lists, the same result and the same update; and when the
\* status the reconciler holds already has the lists of these dependents, the
\* pass issues no update whatever the listing order.
C22_OrderIndependent ==
  \A failure \in BOOLEAN :
    LET r == ensureExtendablesReferencesInStatus(ext, held, dependents.dps,
                                                 dependents.cps, failure)
    IN  /\ Sorted(r.held.status.dataPlaneRefs)
        /\ Sorted(r.held.status.controlPlaneRefs)
        /\ \A m \in Listings(dependents.dps), n \in Listings(dependents.cps) :
             /\ ensureExtendablesReferencesInStatus(ext, held, m, n, failure) = r
             /\ ( /\ Holds(held.status.dataPlaneRefs, AppliedKeys(dependents.dps))
                  /\ Holds(held.status.controlPlaneRefs, AppliedKeys(dependents.cps))
                  /\ Sorted(held.status.dataPlaneRefs) )
                => ensureExtendablesReferencesInStatus(ext, held, m, n, failure).update = "none"

\* Two DataPlanes listed in descending order of their strings, "a/b" before
\* "a-b/c" (the order by namespace and name would keep them so), are stored
\* in ascending order, and the pass over this listing has issued no update.
C22_ListedDescending ==
  /\ reply.passes # <<>>
  /\ reply.update = "none"
  /\ ~reply.requeue
  /\ Len(dependents.dps) = 2
  /\ \A i \in DOMAIN dependents.dps : Applied(dependents.dps[i])
  /\ dependents.dps[1].namespace = Str_a /\ dependents.dps[2].namespace = Str_a_b
  /\ ext.status.dataPlaneRefs =
       <<NamespacedRef(dependents.dps[2].name, Str_a_b), NamespacedRef(dependents.dps[1].name, Str_a)>>

\* ------------------------------------------------------------------ C23

\* The status the reconciler holds already has the lists of the dependents.
UpToDate ==
  /\ Holds(held.status.dataPlaneRefs, AppliedKeys(dependents.dps))
  /\ Holds(held.status.controlPlaneRefs, AppliedKeys(dependents.cps))
  /\ Sorted(held.status.dataPlaneRefs)
  /\ Sorted(held.status.controlPlaneRefs)

\* C23: when the recomputed status equals the status of the extension as the
\* pass read it, the pass issues no status update, leaves the stored
\* extension alone and returns an empty result (no requeue) and no error.
\* Hence, while nobody else changes the dependents or the extension, every
\* pass after a pass that wrote the status issues no update: at most one
\* write is made, and the pass after it returns without a requeue.
C23_NoRedundantWrite ==
  /\ \A r \in RefsPasses :
       UpToDate => r.update = "none" /\ ~r.requeue /\ r.err = NoErr /\ r.ext = ext
  /\ \A i, j \in DOMAIN reply.passes :
       i < j /\ reply.passes[i] = "written" => reply.passes[j] = "none"
  /\ Cardinality({i \in DOMAIN reply.passes : reply.passes[i] = "written"}) <= 1
  /\ reply.passes # <<>> /\ reply.update = "none" => ~reply.requeue /\ reply.err = NoErr
  /\ JustWritten => UpToDate /\ held = ext /\ reply.requeue

\* A pass wrote the references and the two passes after it issued no update
\* and asked for no requeue.
C23_WrittenOnce ==
  /\ reply.passes = <<"written", "none", "none">>
  /\ ~reply.requeue
  /\ reply.err = NoErr
  /\ ext.status.dataPlaneRefs # <<>>

\* ------------------------------------------------------------------ C24

\* The copy the reconciler holds is older than the stored extension.
Stale == held.version # ext.version

\* C24: a status update issued with a stale version is rejected as a
\* conflict: the pass returns Requeue = true and no error and the stored
\* extension stays as the other writer left it, whatever the pass had
\* computed (no second attempt is made in the call).  An update that fails
\* for another reason returns an error and no requeue, and stores nothing.
C24_ConflictRequeues ==
  /\ \A failure \in BOOLEAN :
       LET r == ensureExtendablesReferencesInStatus(ext, held, dependents.dps,
                                                    dependents.cps, failure)
       IN  /\ r.update = "conflict" <=> (~failure /\ Stale /\ ~UpToDate)
           /\ r.update = "conflict" => r.requeue /\ r.err = NoErr /\ r.ext = ext
           /\ r.update = "failed" <=> (failure /\ ~UpToDate)
           /\ r.update = "failed" => ~r.requeue /\ r.err # NoErr /\ r.ext = ext
  /\ reply.passes # <<>> /\ reply.update = "conflict" =>
       reply.requeue /\ reply.err = NoErr /\ ext.status = reply.before
  /\ reply.passes # <<>> /\ reply.update = "failed" =>
       ~reply.requeue /\ reply.err # NoErr /\ ext.status = reply.before

\* A pass met a conflict: it asked for a requeue without an error, and the
\* stored references are the other writer's, not the ones the pass computed.
C24_ConflictLeftStored ==
  /\ reply.passes # <<>>
  /\ reply.update = "conflict"
  /\ reply.requeue
  /\ reply.err = NoErr
  /\ ext.status.dataPlaneRefs # <<>>
  /\ ext.status.dataPlaneRefs # held.status.dataPlaneRefs

\* ------------------------------------------------------------------ KonnectExtension: control plane reference

\* Largest number of KonnectGatewayControlPlanes in the cluster.
MaxKgcps == 2

\* commonv1alpha1.ControlPlaneRef types.
ControlPlaneRefKonnectNamespacedRef == "konnectNamespacedRef"
ControlPlaneRefKonnectID == "konnectID"

\* konnectv1alpha1 condition types and reasons.
ControlPlaneRefValidConditionType == "ControlPlaneRefValid"
ControlPlaneRefReasonValid == "Valid"
ControlPlaneRefReasonInvalid == "Invalid"
KonnectEntityProgrammedConditionType == "Programmed"

\* Errors.
ErrNotFound == "NotFound"
ErrKonnectGatewayControlPlaneNotProgrammed == "KonnectGatewayControlPlane is not programmed"
ErrGet == "get failed"
ErrPatch == "status patch failed"

\* spec.konnect.controlPlane.ref of the extension.
ControlPlaneRef(type, name, konnectID) == [type |-> type, name |-> name, konnectID |-> konnectID]

ControlPlaneRefs ==
  {ControlPlaneRef(ControlPlaneRefKonnectNamespacedRef, "k1", ""),
   ControlPlaneRef(ControlPlaneRefKonnectID, "", "id1")}

\* The extension with its reference; it lives in namespace "a".
ReferringExtension(ref, version, conditions) ==
  [namespace |-> "a", ref |-> ref, version |-> version, status |-> [conditions |-> conditions]]

\* A KonnectGatewayControlPlane.
Kgcp(name, namespace, konnectID, conditions) ==
  [name |-> name, namespace |-> namespace, konnectID |-> konnectID, conditions |-> conditions]

ProgrammedConditions ==
  {{}} \cup {{Condition(KonnectEntityProgrammedConditionType, s, "")} : s \in {"True", "False"}}

Kgcps ==
  {Kgcp(n, ns, id, cs) : n \in {"k1", "k2"}, ns \in Namespaces, id \in {"id1", "id2"},
                         cs \in ProgrammedConditions}

\* The KonnectGatewayControlPlanes of a cluster in listing order; a
\* namespace holds a name once.
RECURSIVE KgcpListsUpTo(_)
KgcpListsUpTo(n) ==
  IF n = 0 THEN {<<>>}
  ELSE LET shorter == KgcpListsUpTo(n - 1) IN
       shorter \cup
       {Append(l, k) : l \in {s \in shorter : Len(s) = n - 1},
                       k \in Kgcps} 

NamedOnce(l) ==
  \A i, j \in DOMAIN l : i # j => l[i].name # l[j].name \/ l[i].namespace # l[j].namespace

KgcpLists == {l \in KgcpListsUpTo(MaxKgcps) : NamedOnce(l)}

\* The conditions a caller passes as dependingConditions.
DependingConditions ==
  {<<>>, <<Condition("DataPlaneCertificateProvisioned", "False", "RefNotValid")>>}

\* k8sutils.SetCondition: the condition replaces the one of its type.
SetCondition(conditions, cond) == {c \in conditions : c.type # cond.type} \cup {cond}

RECURSIVE SetConditions(_, _)
SetConditions(conditions, conds) ==
  IF conds = <<>> THEN conditions
  ELSE SetConditions(SetCondition(conditions, Head(conds)), Tail(conds))

\* k8sutils.HasConditionTrue.
HasConditionTrue(type, obj) ==
  \E c \in obj.conditions : c.type = type /\ c.status = "True"

\* What getGatewayKonnectControlPlane returns and does: cp (<<>> is nil),
\* ctrl.Result.Requeue, the error, the conditions handed to the status patch
\* (<<>>: no patch was issued) and the extension as stored after the call.
CpRet(cp, requeue, err, sent, stored) ==
  [cp |-> cp, requeue |-> requeue, err |-> err, sent |-> sent, ext |-> stored]

\* patch.StatusWithConditions as its call sites use it: it sets the
\* conditions and patches the status; outcome "conflict" returns a requeue
\* result and no error, "failed" an error, and then nothing is stored.
StatusWithConditions(e, conds, outcome) ==
  IF outcome = "conflict" THEN [requeue |-> TRUE, err |-> NoErr, ext |-> e]
  ELSE IF outcome = "failed" THEN [requeue |-> FALSE, err |-> ErrPatch, ext |-> e]
  ELSE LET conditions == SetConditions(e.status.conditions, conds) IN
       [requeue |-> FALSE, err |-> NoErr,
        ext |-> IF conditions = e.status.conditions THEN e
                ELSE [e EXCEPT !.version = @ + 1, !.status.conditions = conditions]]

\* Lines 50-65: Get by name in the namespace of the extension.
getByName(e, objs) ==
  LET found == SelectSeq(objs, LAMBDA k : k.name = e.ref.name /\ k.namespace = e.namespace)
  IN  IF found = <<>> THEN [cp |-> <<>>, err |-> ErrNotFound]
      ELSE [cp |-> Head(found), err |-> NoErr]

\* Lines 66-84: List in the namespace of the extension, filtered by the
\* index on the Konnect ID; the first item is taken.
getByKonnectID(e, objs) ==
  LET listed == SelectSeq(objs, LAMBDA k : k.konnectID = e.ref.konnectID /\ k.namespace = e.namespace)
  IN  IF Len(listed) = 0 THEN [cp |-> <<>>, err |-> ErrNotFound]
      ELSE [cp |-> listed[1], err |-> NoErr]

\* The condition of lines 87-92.
controlPlaneRefValidCond ==
  Condition(ControlPlaneRefValidConditionType, "True", ControlPlaneRefReasonValid)

\* Lines 96-98 and 112-114.
controlPlaneRefInvalidCond ==
  Condition(ControlPlaneRefValidConditionType, "False", ControlPlaneRefReasonInvalid)

\* The return after the patch that hands the error of the lookup back even
\* when the patch asked for a requeue or failed.
patchAndReturnLookupError(e, conds, outcome, cp, err) ==
  LET p == StatusWithConditions(e, conds, outcome) IN
  IF err # NoErr THEN CpRet(<<>>, FALSE, err, conds, p.ext)
  ELSE IF p.err # NoErr \/ p.requeue THEN CpRet(<<>>, p.requeue, p.err, conds, p.ext)
  ELSE CpRet(cp, FALSE, err, conds, p.ext)

\* Lines 99-107, 115-123 and 127-136: the status patch and the return after it.
patchAndReturn(e, conds, outcome, cp, err) ==
  LET p == StatusWithConditions(e, conds, outcome) IN
  IF p.err # NoErr \/ p.requeue
  THEN CpRet(<<>>, p.requeue, p.err, conds, p.ext)
  ELSE CpRet(cp, FALSE, err, conds, p.ext)

\* The check of line 111 left out.
programmedUnchecked(cp) == TRUE

\* Line 111.
programmed(cp) == HasConditionTrue(KonnectEntityProgrammedConditionType, cp)

\* KonnectExtensionReconciler.getGatewayKonnectControlPlane, lines 42-137.
\* getFails: the Get or List fails with another error than NotFound;
\* outcome: what becomes of the status patch.
getGatewayKonnectControlPlane(e, objs, dependingConditions, getFails, outcome) ==
  IF getFails THEN CpRet(<<>>, FALSE, ErrGet, <<>>, e)
  ELSE
    LET got == IF e.ref.type = ControlPlaneRefKonnectNamespacedRef
               THEN getByName(e, objs) ELSE getByKonnectID(e, objs)
    IN
    IF got.err # NoErr
    THEN patchAndReturn(e, Append(dependingConditions, controlPlaneRefInvalidCond),
                        outcome, <<>>, got.err)
    ELSE IF ~programmed(got.cp)
    THEN patchAndReturn(e, Append(dependingConditions, controlPlaneRefInvalidCond),
                        outcome, <<>>, ErrKonnectGatewayControlPlaneNotProgrammed)
    ELSE patchAndReturn(e, <<controlPlaneRefValidCond>>, outcome, got.cp, NoErr)

\* What the call leaves in `reply`: what it returned, the conditions it
\* handed to the status patch, and what became of the lookup and the patch.
CpReply(r, getFails, outcome) ==
  [op |-> "getGatewayKonnectControlPlane", cp |-> r.cp, requeue |-> r.requeue, err |-> r.err,
   sent |-> r.sent, getFails |-> getFails, outcome |-> outcome]

PatchOutcomes == {"ok", "conflict", "failed"}

\* A call of getGatewayKonnectControlPlane.
GetGatewayKonnectControlPlane ==
  /\ family = "ControlPlaneRef"
  /\ \E dependingConditions \in DependingConditions, getFails \in BOOLEAN,
        outcome \in PatchOutcomes :
       LET r == getGatewayKonnectControlPlane(ext, kgcps, dependingConditions, getFails, outcome)
           disturbed == getFails \/ outcome # "ok"
       IN  /\ disturbed => env < MaxEnv
           /\ getFails => outcome = "ok"
           /\ ext' = r.ext
           /\ reply' = CpReply(r, getFails, outcome)
           /\ env' = IF disturbed THEN env + 1 ELSE env
  /\ UNCHANGED <<controlPlaneVars, held, dependents, kgcps, cert>>

\* A KonnectGatewayControlPlane is created, deleted or changes (its
\* Programmed condition, its Konnect ID), or the listing order changes.
KgcpsChange ==
  /\ family = "ControlPlaneRef"
  /\ env < MaxEnv
  /\ \E m \in KgcpLists \ {kgcps} : OneEdit(kgcps, m) /\ kgcps' = m
  /\ env' = env + 1
  /\ reply' = [reply EXCEPT !.op = "env"]
  /\ UNCHANGED <<controlPlaneVars, ext, held, dependents, cert>>

\* The user points the extension to another control plane.
SetControlPlaneRef ==
  /\ family = "ControlPlaneRef"
  /\ env < MaxEnv
  /\ \E ref \in ControlPlaneRefs \ {ext.ref} : ext' = [ext EXCEPT !.ref = ref, !.version = @ + 1]
  /\ env' = env + 1
  /\ reply' = [reply EXCEPT !.op = "env"]
  /\ UNCHANGED <<controlPlaneVars, held, dependents, kgcps, cert>>

InitControlPlaneRef ==
  /\ InitKonnect("ControlPlaneRef")
  /\ \E ref \in ControlPlaneRefs : ext = ReferringExtension(ref, 1, {})
  /\ held = <<>>
  /\ dependents = <<>>
  /\ \/ env = MaxEnv - 1 /\ kgcps \in KgcpLists
     \/ env = 0 /\ kgcps = <<>>
  /\ cert = <<>>
  /\ reply = [op |-> "init", cp |-> <<>>, requeue |-> FALSE, err |-> NoErr, sent |-> <<>>,
              getFails |-> FALSE, outcome |-> "ok"]

NextControlPlaneRef ==
  \/ GetGatewayKonnectControlPlane
  \/ KgcpsChange
  \/ SetControlPlaneRef

SpecControlPlaneRef == InitControlPlaneRef /\ [][NextControlPlaneRef]_vars

\* ------------------------------------------------------------------ C25

\* The KonnectGatewayControlPlanes the reference of the extension addresses:
\* by name, or by Konnect ID, in the namespace of the extension.
Addressed ==
  {i \in DOMAIN kgcps :
     /\ kgcps[i].namespace = ext.namespace
     /\ IF ext.ref.type = ControlPlaneRefKonnectNamespacedRef
        THEN kgcps[i].name = ext.ref.name
        ELSE kgcps[i].konnectID = ext.ref.konnectID}

RefFound == Addressed # {}

\* The referenced control plane: the first one listed.
Referenced == kgcps[CHOOSE i \in Addressed : \A j \in Addressed : i <= j]

RefProgrammed ==
  RefFound /\ Condition(KonnectEntityProgrammedConditionType, "True", "") \in Referenced.conditions

\* The ControlPlaneRefValid conditions among some conditions.
RefValidIn(conditions) == {c \in conditions : c.type = ControlPlaneRefValidConditionType}

\* The calls of getGatewayKonnectControlPlane in which the lookup does not fail.
CpCalls ==
  {[outcome |-> outcome,
    r |-> getGatewayKonnectControlPlane(ext, kgcps, dc, FALSE, outcome)] :
     dc \in DependingConditions, outcome \in PatchOutcomes}

\* C25: in both addressing modes the ControlPlaneRefValid condition the call
\* hands to the status patch, and stores when the patch succeeds, is True
\* with reason Valid exactly when the referenced KonnectGatewayControlPlane
\* is found and its Programmed condition is True, and False with reason
\* Invalid when it is not found or found but not programmed.
C25_RefValidCondition ==
  /\ \A c \in CpCalls :
       LET want == IF RefProgrammed
                   THEN Condition(ControlPlaneRefValidConditionType, "True", ControlPlaneRefReasonValid)
                   ELSE Condition(ControlPlaneRefValidConditionType, "False", ControlPlaneRefReasonInvalid)
       IN  /\ RefValidIn(Range(c.r.sent)) = {want}
           /\ c.outcome = "ok" => RefValidIn(c.r.ext.status.conditions) = {want}
           /\ c.outcome # "ok" => c.r.ext = ext
  /\ (reply.op = "getGatewayKonnectControlPlane" /\ ~reply.getFails /\ reply.outcome = "ok") =>
       RefValidIn(ext.status.conditions) =
         {IF RefProgrammed
          THEN Condition(ControlPlaneRefValidConditionType, "True", ControlPlaneRefReasonValid)
          ELSE Condition(ControlPlaneRefValidConditionType, "False", ControlPlaneRefReasonInvalid)}

\* Addressed by Konnect ID, the control plane is found but its Programmed
\* condition is False, and the call has stored ControlPlaneRefValid = False
\* with reason Invalid.
C25_FoundNotProgrammed ==
  /\ reply.op = "getGatewayKonnectControlPlane"
  /\ reply.outcome = "ok" /\ ~reply.getFails
  /\ ext.ref.type = ControlPlaneRefKonnectID
  /\ RefFound
  /\ Condition(KonnectEntityProgrammedConditionType, "False", "") \in Referenced.conditions
  /\ Condition(ControlPlaneRefValidConditionType, "False", ControlPlaneRefReasonInvalid)
       \in ext.status.conditions

\* ------------------------------------------------------------------ C26

\* C26 as stated: a control plane comes with a nil error only when the
\* reference is found and programmed; a missing reference returns NotFound,
\* a found but unprogrammed one ErrKonnectGatewayControlPlaneNotProgrammed,
\* and in both cases no control plane is returned.
C26_LookupErrorReturned ==
  \A c \in CpCalls :
    /\ c.r.cp # <<>> /\ c.r.err = NoErr => RefProgrammed
    /\ ~RefFound => c.r.err = ErrNotFound /\ c.r.cp = <<>>
    /\ RefFound /\ ~RefProgrammed =>
         c.r.err = ErrKonnectGatewayControlPlaneNotProgrammed /\ c.r.cp = <<>>

\* C26: a control plane is returned only when the reference is found and
\* programmed, and then it is the referenced one, with a nil error and no
\* requeue.  When the status patch that records the condition succeeds, a
\* missing reference returns NotFound and a found but unprogrammed one
\* ErrKonnectGatewayControlPlaneNotProgrammed; when the patch fails its error
\* is returned instead, and when it asks for a requeue the requeue result is
\* returned with a nil error.  In all these cases no control plane is returned.
C26_LookupErrorUnlessPatchFails ==
  \A c \in CpCalls :
    /\ c.r.cp # <<>> =>
         RefProgrammed /\ c.r.cp = Referenced /\ c.r.err = NoErr /\ ~c.r.requeue
    /\ c.outcome = "ok" =>
         /\ ~RefFound => c.r.err = ErrNotFound /\ c.r.cp = <<>> /\ ~c.r.requeue
         /\ RefFound /\ ~RefProgrammed =>
              /\ c.r.err = ErrKonnectGatewayControlPlaneNotProgrammed
              /\ c.r.cp = <<>> /\ ~c.r.requeue
         /\ RefProgrammed => c.r.cp = Referenced
    /\ c.outcome = "failed" => c.r.err = ErrPatch /\ c.r.cp = <<>> /\ ~c.r.requeue
    /\ c.outcome = "conflict" => c.r.err = NoErr /\ c.r.cp = <<>> /\ c.r.requeue

\* The reference is missing and the status patch met a conflict: the call
\* returned a requeue, no error and no control plane.
C26_MissingAndConflict ==
  /\ reply.op = "getGatewayKonnectControlPlane"
  /\ ~reply.getFails
  /\ reply.outcome = "conflict"
  /\ ~RefFound
  /\ reply.err = NoErr
  /\ reply.requeue
  /\ reply.cp = <<>>

\* ------------------------------------------------------------------ KonnectExtension: certificate secret

\* konnectv1alpha1 provisioning modes.
ManualSecretProvisioning == "Manual"
AutomaticSecretProvisioning == "Automatic"

\* The names under which users make Secrets; object names are numbers, and
\* these lie beyond the names the store hands out.
UserCert == MaxId + 2
OtherCert == MaxId + 3
SecretNames == {UserCert, OtherCert}

\* The extension of this part: its namespace, the provisioning mode, the
\* name of the Secret the user refers to (spec ... certificateSecretRef.name)
\* and status.dataPlaneClientAuth.certificateSecretRef (nil or a name).
SecretExtension(provisioning, statusRef) ==
  [name |-> "ext1", namespace |-> "a", provisioning |-> provisioning,
   secretRef |-> UserCert, statusRef |-> statusRef]

\* A Secret a user made, under the name he chose.
UserSecret(name, ns) == Child(name, "Secret", "", ns, "user", {}, "cert", {}, 0, FALSE)

\* client.Get: the object of that name, or NotFound.
Get(c, kind, ns, name) ==
  IF Failing(c)
  THEN [ctx |-> FailedCall(c, "get", kind, ns), obj |-> NoObj]
  ELSE LET found == {o \in c.store : o.kind = kind /\ o.ns = ns /\ o.id = name}
           logged == Logged(c, Call("get", kind, ns, name, NoObj, NoObj))
       IN  IF found = {}
           THEN [ctx |-> Fail(logged, ErrNotFound), obj |-> NoObj]
           ELSE [ctx |-> logged, obj |-> CHOOSE o \in found : TRUE]

\* op.Result, *corev1.Secret, error.
SecretRet(c, res, secret) == [ctx |-> c, res |-> res, secret |-> secret]

\* secrets.EnsureCertificate as the specification describes the automatic
\* mode: the Secret labeled for discovery is reused, or issued when there
\* is none.
EnsureCertificate(c0, owner, ns, usage) ==
  LET l == List(c0, "Secret", owner, NoNs)
      c == l.ctx
      matching == {s \in l.items : s.body = usage}
  IN  IF c.err # NoErr THEN SecretRet(c, "Noop", NoObj)
      ELSE IF matching # {} THEN SecretRet(c, "Noop", Oldest(matching))
      ELSE LET generated == Child(0, "Secret", owner, ns, GenLabels, {}, usage, {}, 0, FALSE)
               d == Create(c, generated)
           IN  IF d.err # NoErr THEN SecretRet(d, "Noop", NoObj)
               ELSE SecretRet(d, "Created", Stored(generated, c.nextId[<<"Secret", ns>>]))

\* KonnectExtensionReconciler.ensureCertificateSecret, lines 238-260.
ensureCertificateSecret(c, e) == EnsureCertificate(c, e.name, e.namespace, "konnect-dp-cert")

\* Line 277 taken for the automatic mode.
caseManualIssuing(c, e) == ensureCertificateSecret(c, e)

\* Lines 277-282: the Secret the user names, in the extension's namespace.
caseManual(c, e) ==
  LET g == Get(c, "Secret", e.namespace, e.secretRef) IN SecretRet(g.ctx, "Noop", g.obj)

\* Lines 270-276: the Secret the status names, when it names one.
caseCleanup(c, e) ==
  IF e.statusRef # {}
  THEN LET g == Get(c, "Secret", e.namespace, CHOOSE n \in e.statusRef : TRUE) IN
       SecretRet(g.ctx, "Noop", g.obj)
  ELSE SecretRet(c, "Noop", NoObj)

\* KonnectExtensionReconciler.getCertificateSecret, lines 262-287.
getCertificateSecret(c, e, cleanup) ==
  IF cleanup THEN caseCleanup(c, e)
  ELSE IF e.provisioning = ManualSecretProvisioning THEN caseManual(c, e)
  ELSE ensureCertificateSecret(c, e)

\* A call of getCertificateSecret.
GetCertificateSecret ==
  /\ family = "CertificateSecret"
  /\ \E cleanup \in BOOLEAN :
      \E failAt \in FailAts(getCertificateSecret(Ctx(store, nextId, 0), ext, cleanup)) :
        \E r \in {getCertificateSecret(Ctx(store, nextId, failAt), ext, cleanup)} :
          Pass("getCertificateSecret", ext.name,
               [enforce |-> cleanup, ca |-> NoCa, failAt |-> failAt], r)

\* The user supplies a Secret.
UserCreatesSecret ==
  /\ family = "CertificateSecret"
  /\ \E name \in SecretNames, ns \in Namespaces :
       /\ \A o \in store : ~(o.kind = "Secret" /\ o.ns = ns /\ o.id = name)
       /\ Tamper(store \cup {UserSecret(name, ns)})
  /\ UNCHANGED <<nextId, konnectVars>>

\* Somebody deletes a Secret.
UserDeletesSecret ==
  /\ family = "CertificateSecret"
  /\ \E o \in store : Tamper(store \ {o})
  /\ UNCHANGED <<nextId, konnectVars>>

\* The user changes the provisioning mode, or the reconciler records the
\* name of the Secret in use in the status.
ExtensionChange ==
  /\ family = "CertificateSecret"
  /\ env < MaxEnv
  /\ \E provisioning \in {ManualSecretProvisioning, AutomaticSecretProvisioning},
        statusRef \in Ptr(SecretNames) :
       /\ ext' = SecretExtension(provisioning, statusRef)
       /\ ext' # ext
  /\ env' = env + 1
  /\ last' = EnvStep
  /\ UNCHANGED <<family, cps, watch, store, nextId, rbacVars, grantVars,
                 held, dependents, kgcps, cert, reply>>

InitCertificateSecret ==
  /\ InitKonnect("CertificateSecret")
  /\ env = 0
  /\ \E provisioning \in {ManualSecretProvisioning, AutomaticSecretProvisioning} :
       ext = SecretExtension(provisioning, {})
  /\ held = <<>>
  /\ dependents = <<>>
  /\ kgcps = <<>>
  /\ cert = <<>>
  /\ reply = <<>>

NextCertificateSecret ==
  \/ GetCertificateSecret
  \/ UserCreatesSecret
  \/ UserDeletesSecret
  \/ ExtensionChange

SpecCertificateSecret == InitCertificateSecret /\ [][NextCertificateSecret]_vars

\* ------------------------------------------------------------------ C27

\* The Secrets in the store.
TheSecrets(S) == {o \in S : o.kind = "Secret"}

\* The Secret the user names in the spec, if it exists.
NamedSecret ==
  {o \in TheSecrets(store) : o.ns = ext.namespace /\ o.id = ext.secretRef}

\* C27: with manual provisioning getCertificateSecret only reads: whatever
\* the call (cleanup or not, store call failing or not) no Secret is created,
\* changed or deleted and the result is Noop; outside cleanup the one call is
\* the Get of the Secret the user names, and while that Secret is absent the
\* call returns the NotFound of the lookup, and once it exists that Secret
\* and no error.
C27_ManualOnlyReads ==
  ext.provisioning = ManualSecretProvisioning =>
    /\ \A cleanup \in BOOLEAN, failAt \in {0, 1} :
         LET r == getCertificateSecret(Ctx(store, nextId, failAt), ext, cleanup) IN
         /\ r.ctx.store = store
         /\ r.ctx.nextId = nextId
         /\ r.res = "Noop"
         /\ \A i \in DOMAIN r.ctx.calls : r.ctx.calls[i].verb = "get"
         /\ ~cleanup =>
              /\ Len(r.ctx.calls) = 1
              /\ r.ctx.calls[1].ns = ext.namespace
              /\ failAt = 0 => r.ctx.calls[1].n = ext.secretRef
              /\ failAt = 0 /\ NamedSecret = {} => r.ctx.err = ErrNotFound
              /\ failAt = 0 /\ NamedSecret # {} => r.ctx.err = NoErr /\ {r.secret} = NamedSecret
    /\ last.op = "getCertificateSecret" =>
         /\ last.res = "Noop"
         /\ \A i \in DOMAIN last.calls : last.calls[i].verb = "get"
         /\ (~last.args.enforce /\ last.args.failAt = 0) =>
              (last.err = ErrNotFound <=> NamedSecret = {})

\* In manual mode the named Secret is absent while other Secrets exist (one
\* issued earlier in automatic mode, one of the same name in another
\* namespace): the call returned NotFound and Noop.
C27_AbsentNotCorrected ==
  /\ ext.provisioning = ManualSecretProvisioning
  /\ last.op = "getCertificateSecret"
  /\ ~last.args.enforce
  /\ last.err = ErrNotFound
  /\ last.res = "Noop"
  /\ NamedSecret = {}
  /\ \E s \in TheSecrets(store) : s.owner = ext.name
  /\ \E s \in TheSecrets(store) : s.id = ext.secretRef /\ s.ns # ext.namespace

\* ------------------------------------------------------------------ certificate Secrets of the ControlPlane

\* consts.SecretUsedByServiceLabel: what a certificate Secret is used for.
ControlPlaneServiceKindAdmin == "admin"
ControlPlaneServiceKindWebhook == "webhook"

\* A listing of the owner's Secrets that ignores the usage label.
ListSecretsOfAnyUsage(c0, p, usage) ==
  LET l == List(c0, "Secret", p, NoNs) IN [ctx |-> l.ctx, items |-> l.items]

\* k8sutils.ListSecretsForOwner with matching labels: the Secrets owned by p
\* that carry the usage label.
ListSecretsForOwner(c0, p, usage) ==
  LET l == List(c0, "Secret", p, NoNs) IN
  [ctx |-> l.ctx, items |-> {s \in l.items : s.body = usage}]

\* Reconciler.ensureAdminMTLSCertificateSecret, lines 841-871.
ensureAdminMTLSCertificateSecret(c0, p) ==
  EnsureCertificate(c0, p, CpNamespace(p), ControlPlaneServiceKindAdmin)

\* The disabled branch deleting the Secrets of the owner whatever their use.
deleteSecretsOfAnyUsage(c0, p) ==
  LET l == List(c0, "Secret", p, NoNs) IN
  IF l.ctx.err # NoErr THEN SecretRet(l.ctx, "Noop", NoObj)
  ELSE IF l.items = {} THEN SecretRet(l.ctx, "Noop", NoObj)
  ELSE LET d == DeleteAll(l.ctx, l.items) IN
       SecretRet(d, IF d.err # NoErr THEN "Noop" ELSE "Deleted", NoObj)

\* Lines 893-907: the webhook is disabled.
deleteWebhookSecrets(c0, p) ==
  LET l == ListSecretsForOwner(c0, p, ControlPlaneServiceKindWebhook)
      c == l.ctx
      secrets == l.items
  IN  IF c.err # NoErr THEN SecretRet(c, "Noop", NoObj)
      ELSE IF Cardinality(secrets) = 0 THEN SecretRet(c, "Noop", NoObj)
      ELSE LET d == DeleteAll(c, secrets) IN
           SecretRet(d, IF d.err # NoErr THEN "Noop" ELSE "Deleted", NoObj)

\* Reconciler.ensureAdmissionWebhookCertificateSecret, lines 875-921.
ensureAdmissionWebhookCertificateSecret(c0, spec, p) ==
  IF ~isAdmissionWebhookEnabled(spec)
  THEN deleteWebhookSecrets(c0, p)
  ELSE EnsureCertificate(c0, p, CpNamespace(p), ControlPlaneServiceKindWebhook)

EnsureAdminMTLSCertificateSecret ==
  /\ family = "Secret"
  /\ \E p \in DOMAIN cps :
      \E failAt \in FailAts(ensureAdminMTLSCertificateSecret(Ctx(store, nextId, 0), p)) :
        \E r \in {ensureAdminMTLSCertificateSecret(Ctx(store, nextId, failAt), p)} :
          Pass("ensureAdminMTLSCertificateSecret", p, [NoArgs EXCEPT !.failAt = failAt], r)

EnsureAdmissionWebhookCertificateSecret ==
  /\ family = "Secret"
  /\ \E p \in DOMAIN cps :
      \E failAt \in FailAts(ensureAdmissionWebhookCertificateSecret(
                              Ctx(store, nextId, 0), cps[p], p)) :
        \E r \in {ensureAdmissionWebhookCertificateSecret(
                    Ctx(store, nextId, failAt), cps[p], p)} :
          Pass("ensureAdmissionWebhookCertificateSecret", p,
               [NoArgs EXCEPT !.failAt = failAt], r)

\* The children of the admission webhook: certificate Secret, Service and
\* ValidatingWebhookConfiguration of two ControlPlanes, with the webhook
\* switched on and off and children duplicated and deleted out-of-band.
WebhookFamilies == {"Secret", "Service", "ValidatingWebhookConfiguration"}

InitWebhook == \E f \in WebhookFamilies : InitFamily(f, Parents, <<>>)

NextWebhook ==
  \/ EnsureAdminMTLSCertificateSecret
  \/ EnsureAdmissionWebhookCertificateSecret
  \/ EnsureAdmissionWebhookService
  \/ EnsureValidatingWebhookConfiguration
  \/ SetWebhook
  \/ ExternalDuplicate
  \/ ExternalDelete

SpecWebhook == InitWebhook /\ [][NextWebhook]_vars

\* ------------------------------------------------------------------ C28

\* The children of the admission webhook of p.
WebhookSecrets(p) ==
  {o \in store : o.kind = "Secret" /\ o.owner = p /\ o.body = ControlPlaneServiceKindWebhook}
WebhookServices(p) == Select(store, "Service", p, CpNamespace(p))
WebhookConfigurations(p) == Select(store, "ValidatingWebhookConfiguration", p, NoNs)

\* The pass r found the children `matching`: it deleted them all and
\* nothing else and returned Deleted and no error, or there was none and it
\* returned Noop and no error after listing only.
DeletedAll(r, matching) ==
  /\ r.ctx.err = NoErr
  /\ r.ctx.store = store \ matching
  /\ r.res = IF matching = {} THEN "Noop" ELSE "Deleted"
  /\ matching = {} => \A i \in DOMAIN r.ctx.calls : r.ctx.calls[i].verb = "list"

\* The passes of ensureValidatingWebhookConfiguration for p in which no
\* store call fails, from the store S.
ConfigurationPasses(S, p) ==
  {ensureValidatingWebhookConfiguration(Ctx(S, nextId, 0), cps[p], p, ca, enforce) :
     ca \in CaBundles \cup {NoCa}, enforce \in BOOLEAN}

\* C28 as stated: with the webhook disabled one pass of each of the three
\* operations deletes all the matching children of the parent, however
\* many, and returns Deleted, or Noop without a write when there is none.
C28_DisabledDeletesAll ==
  \A p \in DOMAIN cps :
    ~isAdmissionWebhookEnabled(cps[p]) =>
      /\ DeletedAll(ensureAdmissionWebhookCertificateSecret(Ctx(store, nextId, 0), cps[p], p),
                    WebhookSecrets(p))
      /\ DeletedAll(ensureAdmissionWebhookService(Ctx(store, nextId, 0), cps[p], p),
                    WebhookServices(p))
      /\ \A r \in ConfigurationPasses(store, p) : DeletedAll(r, WebhookConfigurations(p))

\* C28: with the webhook disabled, a pass in which no store call fails of
\* ensureAdmissionWebhookCertificateSecret and of ensureAdmissionWebhookService
\* deletes all the matching children of the parent, however many, and returns
\* Deleted (Noop without a write when there is none), and so does
\* ensureValidatingWebhookConfiguration when at most one configuration
\* exists.  With more than one configuration its pass deletes all but the
\* oldest and returns Noop with the error "reduced"; the next pass deletes
\* the last one and returns Deleted.
C28_DisabledDeletesAllButReducesFirst ==
  \A p \in DOMAIN cps :
    ~isAdmissionWebhookEnabled(cps[p]) =>
      /\ DeletedAll(ensureAdmissionWebhookCertificateSecret(Ctx(store, nextId, 0), cps[p], p),
                    WebhookSecrets(p))
      /\ DeletedAll(ensureAdmissionWebhookService(Ctx(store, nextId, 0), cps[p], p),
                    WebhookServices(p))
      /\ \A r \in ConfigurationPasses(store, p) :
           IF Cardinality(WebhookConfigurations(p)) <= 1
           THEN DeletedAll(r, WebhookConfigurations(p))
           ELSE /\ r.res = "Noop"
                /\ r.ctx.err = "number of validatingWebhookConfigurations reduced"
                /\ r.ctx.store =
                     store \ (WebhookConfigurations(p) \ {Oldest(WebhookConfigurations(p))})
                /\ \A q \in ConfigurationPasses(r.ctx.store, p) :
                     /\ q.res = "Deleted"
                     /\ q.ctx.err = NoErr
                     /\ q.ctx.store = store \ WebhookConfigurations(p)

\* With the webhook disabled and three configurations of the parent, the
\* pass has reduced them to one, which remains, and returned the error.
C28_ReducedNotDeleted ==
  /\ last.op = "ensureValidatingWebhookConfiguration"
  /\ ~isAdmissionWebhookEnabled(cps[last.p])
  /\ last.res = "Noop"
  /\ last.err = "number of validatingWebhookConfigurations reduced"
  /\ Len(last.calls) = 3
  /\ Cardinality(WebhookConfigurations(last.p)) = 1

\* ------------------------------------------------------------------ sanitizeCert

\* Longest certificate text.
MaxCertLen == 4

\* "\n" (line 303) and "\r" (line 304); texts are strings of bytes.
LF == 10
CR == 13

\* The certificate texts: letters, newlines and carriage returns.
Bytes == {LF, CR, 97, 98}

RECURSIVE TextsUpTo(_)
TextsUpTo(n) ==
  IF n = 0 THEN {<<>>}
  ELSE LET shorter == TextsUpTo(n - 1) IN
       shorter \cup {Append(t, ch) : t \in {s \in shorter : Len(s) = n - 1},
                                     ch \in Bytes}

\* strings.TrimSuffix.
TrimSuffix(s, suffix) ==
  IF Len(s) >= Len(suffix) /\ SubSeq(s, Len(s) - Len(suffix) + 1, Len(s)) = suffix
  THEN SubSeq(s, 1, Len(s) - Len(suffix))
  ELSE s

\* strings.ReplaceAll(s, old, "") for a one-byte old.
RemoveAll(s, old) == SelectSeq(s, LAMBDA ch : ch # old)

\* sanitizeCert, lines 302-306.
sanitizeCert(c) ==
  LET newCert == TrimSuffix(c, <<LF>>) IN RemoveAll(newCert, CR)

\* A certificate text is sanitized.
SanitizeCert ==
  /\ family = "SanitizeCert"
  /\ reply.op # "sanitizeCert"
  /\ reply' = [op |-> "sanitizeCert", out |-> sanitizeCert(cert)]
  /\ UNCHANGED <<controlPlaneVars, env, ext, held, dependents, kgcps, cert>>

\* A longer certificate text arrives.
NextCert ==
  /\ family = "SanitizeCert"
  /\ Len(cert) < MaxCertLen
  /\ \E ch \in Bytes : cert' = Append(cert, ch)
  /\ reply' = [op |-> "init", out |-> <<>>]
  /\ UNCHANGED <<controlPlaneVars, env, ext, held, dependents, kgcps>>

InitSanitize ==
  /\ InitKonnect("SanitizeCert")
  /\ env = 0
  /\ ext = <<>>
  /\ held = <<>>
  /\ dependents = <<>>
  /\ kgcps = <<>>
  /\ cert \in TextsUpTo(MaxCertLen - 2)
  /\ reply = [op |-> "init", out |-> <<>>]

NextSanitize ==
  \/ SanitizeCert
  \/ NextCert

SpecSanitize == InitSanitize /\ [][NextSanitize]_vars

\* ------------------------------------------------------------------ C29

\* The text without its trailing newlines.
RECURSIVE WithoutTrailingNewlines(_)
WithoutTrailingNewlines(s) ==
  IF s # <<>> /\ s[Len(s)] = LF
  THEN WithoutTrailingNewlines(SubSeq(s, 1, Len(s) - 1))
  ELSE s

\* C29: for every certificate text the output of sanitizeCert contains no
\* carriage return, does not end with a newline, and is otherwise the input:
\* the input without its carriage returns and without the newlines at its end.
C29_Sanitized ==
  LET out == sanitizeCert(cert) IN
  /\ \A i \in DOMAIN out : out[i] # CR
  /\ out # <<>> => out[Len(out)] # LF
  /\ out = WithoutTrailingNewlines(SelectSeq(cert, LAMBDA ch : ch # CR))
  /\ reply.op = "sanitizeCert" => reply.out = out

\* ------------------------------------------------------------------ DataPlane configuration of the ControlPlane

\* Names of the DataPlane's ingress Service.
DataPlaneServices == {"svc1", "svc2"}

\* The ControlPlane spec with the value of CONTROLLER_PUBLISH_SERVICE in the
\* environment of the controller container ("": the variable is not set).
WithPublishService(spec, value) ==
  [image |-> spec.image, dataplane |-> spec.dataplane, replicas |-> spec.replicas,
   webhook |-> spec.webhook, container |-> spec.container, publishService |-> value]

\* k8stypes.NamespacedName.String(), line 126.
PublishServiceValue(namespace, dataplaneServiceName) ==
  namespace \o "/" \o dataplaneServiceName

\* setControlPlaneEnvOnDataPlaneChange, lines 119-137.  The container is nil
\* when the pod template has no controller container, and both branches
\* read container.Env.
setControlPlaneEnvOnDataPlaneChange(spec, namespace, dataplaneServiceName) ==
  IF ~spec.container
  THEN [panic |-> TRUE, changed |-> FALSE, spec |-> spec]
  ELSE IF spec.dataplane
  THEN LET newPublishServiceValue == PublishServiceValue(namespace, dataplaneServiceName) IN
       IF spec.publishService # newPublishServiceValue
       THEN [panic |-> FALSE, changed |-> TRUE,
             spec |-> [spec EXCEPT !.publishService = newPublishServiceValue]]
       ELSE [panic |-> FALSE, changed |-> FALSE, spec |-> spec]
  ELSE IF spec.publishService # ""
  THEN [panic |-> FALSE, changed |-> TRUE, spec |-> [spec EXCEPT !.publishService = ""]]
  ELSE [panic |-> FALSE, changed |-> FALSE, spec |-> spec]

\* Reconciler.ensureDataPlaneConfiguration, lines 100-117: the spec as stored
\* after the call, with the pass.
ensureDataPlaneConfiguration(c, spec, p, dataplaneServiceName) ==
  LET s == setControlPlaneEnvOnDataPlaneChange(spec, CpNamespace(p), dataplaneServiceName) IN
  IF s.panic THEN [ctx |-> Fail(c, Panic), res |-> "Noop", spec |-> spec]
  ELSE IF s.changed
  THEN IF Failing(c)
       THEN [ctx |-> Fail(FailedCall(c, "update", "ControlPlane", CpNamespace(p)),
                          "failed updating ControlPlane's DataPlane"),
             res |-> "Noop", spec |-> spec]
       ELSE [ctx |-> Logged(c, Call("update", "ControlPlane", CpNamespace(p), 0, NoObj, NoObj)),
             res |-> "Updated", spec |-> s.spec]
  ELSE [ctx |-> c, res |-> "Noop", spec |-> spec]

EnsureDataPlaneConfiguration ==
  /\ family = "DataPlaneConfiguration"
  /\ \E p \in DOMAIN cps, svc \in DataPlaneServices :
      \E failAt \in FailAts(ensureDataPlaneConfiguration(Ctx(store, nextId, 0), cps[p], p, svc)) :
        LET r == ensureDataPlaneConfiguration(Ctx(store, nextId, failAt), cps[p], p, svc) IN
        /\ cps' = [cps EXCEPT ![p] = r.spec]
        /\ env' = IF failAt = 0 THEN env ELSE env + 1
        /\ last' = Step("ensureDataPlaneConfiguration", p, [NoArgs EXCEPT !.failAt = failAt], r)
  /\ UNCHANGED <<family, watch, store, nextId, rbacVars, grantVars, konnectVars>>

\* The operations that read the controller container of the pod template.
ContainerFamilies == {"DataPlaneConfiguration", "RBAC", "ValidatingWebhookConfiguration"}

InitContainer ==
  \E f \in ContainerFamilies :
    /\ family = f
    /\ cps = [p \in Parents |-> WithPublishService(InitSpec, "")]
    /\ watch = [p \in Parents |-> <<"a">>]
    /\ store = {}
    /\ nextId = [k \in Kinds \X (Namespaces \cup {NoNs}) |-> 1]
    /\ env = 0
    /\ last = InitStep
    /\ NoPartition
    /\ NoValidation
    /\ NoKonnect

NextContainer ==
  \/ EnsureDataPlaneConfiguration
  \/ EnsureRolesAndClusterRoles
  \/ EnsureValidatingWebhookConfiguration
  \/ SetContainer
  \/ SetDataPlane
  \/ SetImage

SpecContainer == InitContainer /\ [][NextContainer]_vars

\* ------------------------------------------------------------------ C30

\* C30: for a ControlPlane spec without the controller container no
\* operation panics: ensureDataPlaneConfiguration, ensureRolesAndClusterRoles
\* and ensureValidatingWebhookConfiguration each return, with an error or
\* with nothing to do.
C30_NoPanic ==
  /\ last.err # Panic
  /\ \A p \in DOMAIN cps :
       ~cps[p].container =>
         /\ \A svc \in DataPlaneServices :
              ensureDataPlaneConfiguration(Ctx(store, nextId, 0), cps[p], p, svc).ctx.err # Panic
         /\ ensureRolesAndClusterRoles(Ctx(store, nextId, 0), cps[p], p, watch[p]).ctx.err # Panic
         /\ \A ca \in CaBundles \cup {NoCa}, enforce \in BOOLEAN :
              ensureValidatingWebhookConfiguration(
                Ctx(store, nextId, 0), cps[p], p, ca, enforce).ctx.err # Panic

\* ------------------------------------------------------------------ C31

\* The store calls of a pass that create or patch a child of a kind.
CreatedOrPatched(calls, kind) ==
  {i \in DOMAIN calls : calls[i].kind = kind /\ calls[i].verb \in {"create", "patch", "update"}}

\* C31: when no controller image can be generated from the spec, an
\* ensureDeployment pass returns an error with result Noop and no
\* Deployment, and creates or patches no Deployment, whichever store call
\* fails; with at most one Deployment listed and no failing store call the
\* error is the one of the image generation and the store is left as it
\* was, the one Deployment included.
C31_InvalidSpec ==
  \A p \in DOMAIN cps, enforce \in BOOLEAN :
    cps[p].image = NoImage =>
      /\ \A failAt \in 0..2 :
           LET r == ensureDeployment(Ctx(store, nextId, failAt), cps[p], p, enforce) IN
           /\ r.ctx.err # NoErr /\ r.res = "Noop" /\ r.name = 0
           /\ CreatedOrPatched(r.ctx.calls, "Deployment") = {}
           /\ TheDeployments(store, p) \ TheDeployments(r.ctx.store, p) # {}
                => Cardinality(TheDeployments(store, p)) > 1
           /\ TheDeployments(r.ctx.store, p) \subseteq TheDeployments(store, p)
      /\ LET r == ensureDeployment(Now, cps[p], p, enforce) IN
         Cardinality(TheDeployments(store, p)) <= 1
           => /\ r.ctx.err = "invalid image"
              /\ Writes(r.ctx.calls) = {}
              /\ r.ctx.store = store

\* A pass over a spec without an image has just returned the error and left
\* the one Deployment, whose fingerprint is of an earlier spec, in the store.
C31_InvalidSpecLeftDeployment ==
  /\ last.op = "ensureDeployment" /\ last.err = "invalid image" /\ last.res = "Noop"
  /\ cps[last.p].image = NoImage
  /\ Cardinality(TheDeployments(store, last.p)) = 1
  /\ \A d \in TheDeployments(store, last.p) : ~SpecHashMatchesAnnotation(cps[last.p], d)

\* ------------------------------------------------------------------ ControlPlane status

ConditionTypeProvisioned == "Provisioned"
ConditionReasonNoDataPlane == "NoDataPlane"
ConditionReasonPodsNotReady == "PodsNotReady"
MessageScheduled == "ControlPlane resource is scheduled for provisioning"
MessageNoDataPlane == "DataPlane is not set"
MessageDataPlaneSet == "DataPlane was set, ControlPlane resource is scheduled for provisioning"

\* Names of DataPlanes.
DataPlaneNames == {"dp1", "dp2"}

\* k8sutils.NewCondition.
NewCondition(type, status, reason, message) ==
  [type |-> type, status |-> status, reason |-> reason, message |-> message]

\* The ControlPlane as ensureDataPlaneStatus reads it: spec.dataplane (a
\* pointer to a name) and status.conditions (at most one of a type).
ControlPlane(dataplane, conditions) == [dataplane |-> dataplane, conditions |-> conditions]

\* k8sutils.GetCondition: the condition of the type (<<>>: not present).
GetCondition(type, obj) ==
  IF \E c \in obj.conditions : c.type = type
  THEN <<CHOOSE c \in obj.conditions : c.type = type>>
  ELSE <<>>

\* A comparison that looks at the status only.
ConditionDiffersByStatus(condition, newCondition) ==
  condition = <<>> \/ condition[1].status # newCondition.status

\* Line 91: the condition is set when none is present or when its status or
\* its reason differs.
ConditionDiffers(condition, newCondition) ==
  condition = <<>> \/ condition[1].status # newCondition.status
                   \/ condition[1].reason # newCondition.reason

\* Reconciler.ensureIsMarkedScheduled, lines 47-64.
ensureIsMarkedScheduled(cp) ==
  IF GetCondition(ConditionTypeProvisioned, cp) = <<>>
  THEN [ret |-> TRUE,
        cp |-> [cp EXCEPT !.conditions =
                  SetCondition(@, NewCondition(ConditionTypeProvisioned, "False",
                                               ConditionReasonPodsNotReady, MessageScheduled))]]
  ELSE [ret |-> FALSE, cp |-> cp]

\* Reconciler.ensureDataPlaneStatus, lines 69-95: what it returns and the
\* ControlPlane it leaves.
ensureDataPlaneStatus(cp, dataplaneName) ==
  LET dataplaneIsSet == cp.dataplane # {} /\ cp.dataplane = {dataplaneName}
      condition == GetCondition(ConditionTypeProvisioned, cp)
      newCondition ==
        IF dataplaneIsSet
        THEN NewCondition(ConditionTypeProvisioned, "False", ConditionReasonPodsNotReady,
                          MessageDataPlaneSet)
        ELSE NewCondition(ConditionTypeProvisioned, "False", ConditionReasonNoDataPlane,
                          MessageNoDataPlane)
  IN  [ret |-> dataplaneIsSet,
       cp |-> IF ConditionDiffers(condition, newCondition)
              THEN [cp EXCEPT !.conditions = SetCondition(@, newCondition)]
              ELSE cp]

\* What a status operation leaves in `last`: the DataPlane it was given, the
\* ControlPlane it read, and what it returned.
StatusStep(op, p, dataplaneName, before, ret) ==
  [op |-> op, p |-> p, args |-> [dataplane |-> dataplaneName, cp |-> before],
   res |-> ret, err |-> NoErr, calls |-> <<>>]

EnsureIsMarkedScheduled ==
  /\ family = "Status"
  /\ \E p \in DOMAIN cps :
       LET r == ensureIsMarkedScheduled(cps[p]) IN
       /\ cps' = [cps EXCEPT ![p] = r.cp]
       /\ last' = StatusStep("ensureIsMarkedScheduled", p, "", cps[p], r.ret)
  /\ UNCHANGED <<family, watch, store, nextId, env, rbacVars, grantVars, konnectVars>>

EnsureDataPlaneStatus ==
  /\ family = "Status"
  /\ \E p \in DOMAIN cps, dataplaneName \in DataPlaneNames :
       LET r == ensureDataPlaneStatus(cps[p], dataplaneName) IN
       /\ cps' = [cps EXCEPT ![p] = r.cp]
       /\ last' = StatusStep("ensureDataPlaneStatus", p, dataplaneName, cps[p], r.ret)
  /\ UNCHANGED <<family, watch, store, nextId, env, rbacVars, grantVars, konnectVars>>

\* The user sets or clears the dataplane reference of the spec.
SetDataPlaneRef ==
  /\ family = "Status"
  /\ \E p \in DOMAIN cps, d \in Ptr(DataPlaneNames) :
       /\ cps[p].dataplane # d
       /\ cps' = [cps EXCEPT ![p].dataplane = d]
  /\ last' = EnvStep
  /\ UNCHANGED <<family, watch, store, nextId, env, rbacVars, grantVars, konnectVars>>

\* The rest of the reconciler marks the ControlPlane provisioned once its
\* Deployment is ready.
MarkProvisioned ==
  /\ family = "Status"
  /\ \E p \in DOMAIN cps :
       LET c == NewCondition(ConditionTypeProvisioned, "True", "Provisioned", "pods are ready") IN
       /\ c \notin cps[p].conditions
       /\ cps' = [cps EXCEPT ![p].conditions = SetCondition(@, c)]
  /\ last' = EnvStep
  /\ UNCHANGED <<family, watch, store, nextId, env, rbacVars, grantVars, konnectVars>>

InitStatus ==
  /\ family = "Status"
  /\ cps = [p \in Parents |-> ControlPlane({}, {})]
  /\ watch = [p \in Parents |-> <<>>]
  /\ store = {}
  /\ nextId = [k \in Kinds \X (Namespaces \cup {NoNs}) |-> 1]
  /\ env = 0
  /\ last = InitStep
  /\ NoPartition
  /\ NoValidation
  /\ NoKonnect

NextStatus ==
  \/ EnsureIsMarkedScheduled
  \/ EnsureDataPlaneStatus
  \/ SetDataPlaneRef
  \/ MarkProvisioned

SpecStatus == InitStatus /\ [][NextStatus]_vars

\* ------------------------------------------------------------------ C32

\* The Provisioned condition of a ControlPlane has the status and the reason.
ProvisionedIs(cp, status, reason) ==
  \E c \in cp.conditions :
    c.type = ConditionTypeProvisioned /\ c.status = status /\ c.reason = reason

\* C32: ensureDataPlaneStatus leaves the Provisioned condition False with
\* reason NoDataPlane when the dataplane reference of the ControlPlane is nil
\* or names another DataPlane than the given one, and False with reason
\* PodsNotReady when it names the given one; it returns true exactly in the
\* latter case; and when the stored condition already has that status and
\* reason it leaves the ControlPlane, the message of the condition included,
\* as it was.
C32_DataPlaneStatus ==
  /\ \A p \in DOMAIN cps, dataplaneName \in DataPlaneNames :
       LET r == ensureDataPlaneStatus(cps[p], dataplaneName)
           matching == cps[p].dataplane = {dataplaneName}
           reason == IF matching THEN ConditionReasonPodsNotReady ELSE ConditionReasonNoDataPlane
       IN  /\ r.ret = matching
           /\ ProvisionedIs(r.cp, "False", reason)
           /\ Cardinality(r.cp.conditions) = 1
           /\ r.cp.dataplane = cps[p].dataplane
           /\ ProvisionedIs(cps[p], "False", reason) => r.cp = cps[p]
  /\ last.op = "ensureDataPlaneStatus" =>
       /\ last.res = (last.args.cp.dataplane = {last.args.dataplane})
       /\ cps[last.p] = ensureDataPlaneStatus(last.args.cp, last.args.dataplane).cp

\* A call for the DataPlane the spec names has just returned true and left
\* the condition ensureIsMarkedScheduled had set, with its message.
C32_ScheduledKept ==
  /\ last.op = "ensureDataPlaneStatus" /\ last.res = TRUE
  /\ cps[last.p].dataplane = {last.args.dataplane}
  /\ cps[last.p] = last.args.cp
  /\ \E c \in cps[last.p].conditions :
       /\ c.type = ConditionTypeProvisioned /\ c.status = "False"
       /\ c.reason = ConditionReasonPodsNotReady /\ c.message = MessageScheduled

\* ------------------------------------------------------------------ C33

\* A pass that returned Noop, issued no write and left the store as it was.
Untouched(r) == r.res = "Noop" /\ Writes(r.ctx.calls) = {} /\ r.ctx.store = store

\* C33: with exactly one Deployment (exactly one
\* ValidatingWebhookConfiguration) whose fingerprint annotation equals the
\* hash of the parent spec, a pass with enforce false and no failing store
\* call returns Noop, issues no write and leaves the store, every field of
\* the child included, as it was, whatever was altered on the child
\* out-of-band; the Deployment pass, and the configuration pass that is
\* handed a CA bundle, return no error.
C33_FingerprintNoop ==
  \A p \in DOMAIN cps :
    /\ \A d \in TheDeployments(store, p) :
         (TheDeployments(store, p) = {d} /\ SpecHashMatchesAnnotation(cps[p], d))
           => LET r == ensureDeployment(Now, cps[p], p, FALSE) IN
              Skipped(r) /\ r.name = d.id /\ d \in r.ctx.store
    /\ \A w \in TheWebhookConfigurations(store, p) :
         (TheWebhookConfigurations(store, p) = {w} /\ SpecHashMatchesAnnotation(cps[p], w))
           => \A ca \in CaBundles \cup {NoCa} :
                LET r == ensureValidatingWebhookConfiguration(Now, cps[p], p, ca, FALSE) IN
                /\ Untouched(r) /\ w \in r.ctx.store
                /\ ca # NoCa => r.ctx.err = NoErr /\ r.name = w.id

\* A pass with enforce false has just returned Noop over the one Deployment
\* whose fingerprint matches the spec while its pod template, its labels or
\* its replicas are not the generated ones.
C33_AlteredDeploymentSkipped ==
  /\ last.op = "ensureDeployment" /\ ~last.args.enforce /\ last.args.failAt = 0
  /\ last.res = "Noop" /\ last.err = NoErr /\ Writes(last.calls) = {}
  /\ \E d \in TheDeployments(store, last.p) :
       /\ TheDeployments(store, last.p) = {d}
       /\ SpecHashMatchesAnnotation(cps[last.p], d)
       /\ d.body # GenerateNewDeploymentForControlPlane(cps[last.p], last.p).body

\* ------------------------------------------------------------------ C34

\* The discovery mapping reports the resource as namespaced, and as nothing
\* else, under every API group of the rule.
ReportedNamespaced(mapping, rule, resource) ==
  \A apiGroup \in Range(rule.apiGroups) : Found(mapping, apiGroup, resource) = {TRUE}

\* C34: whatever processClusterRole returns for the template and the
\* discovery mapping, no rule among the cluster rules names a resource that
\* the mapping reports as namespaced: the cluster rules name only
\* cluster-scoped and undiscovered resources.
C34_NoNamespacedInClusterRules ==
  \A r \in processClusterRole(templateRules, gvl) :
    \A i \in DOMAIN r.clusterRolePolicyRules :
      \A resource \in Range(r.clusterRolePolicyRules[i].resources) :
        ~ReportedNamespaced(gvl, r.clusterRolePolicyRules[i], resource)

\* ------------------------------------------------------------------ C35

\* The step of ensureRolesAndClusterRoles that issued call i of a pass:
\* 1 ClusterRole, 2 ClusterRoleBinding, 3 Roles, 4 RoleBindings, 5 pruning
\* (which begins with the listing of the Roles of all namespaces).
StepOf(calls, i) ==
  CASE calls[i].kind = "ClusterRole" -> 1
    [] calls[i].kind = "ClusterRoleBinding" -> 2
    [] \E j \in 1..i : /\ calls[j].verb = "list" /\ calls[j].ns = NoNs
                       /\ calls[j].kind \in {"Role", "RoleBinding"} -> 5
    [] calls[i].kind = "Role" -> 3
    [] OTHER -> 4

\* The calls of a pass that created or patched a child: a call that fails
\* writes nothing.
CreatedOrUpdated(calls) == {i \in CreatesOrPatches(calls) : calls[i].new # NoObj}

\* The kinds of the children a pass created or patched.
KindsWritten(calls) == {calls[i].kind : i \in CreatedOrUpdated(calls)}

\* The steps are taken in the fixed order.
InOrder(calls) ==
  \A i, j \in DOMAIN calls : i < j => StepOf(calls, i) <= StepOf(calls, j)

\* C35, as stated: a pass of ensureRolesAndClusterRoles takes the steps in
\* the order ClusterRole, ClusterRoleBinding, Roles, RoleBindings, pruning
\* and returns Updated as soon as one step creates or updates something: it
\* creates or patches children of at most one kind, issues no call on
\* RoleBindings when it created or patched a Role, and prunes only when no
\* earlier step wrote.
C35_UpdatedAfterFirstWrite ==
  last.op = "ensureRolesAndClusterRoles" =>
    /\ InOrder(last.calls)
    /\ CreatedOrUpdated(last.calls) # {} => last.res = "Updated"
    /\ Cardinality(KindsWritten(last.calls)) <= 1
    /\ \A i \in Writes(last.calls) :
         \A j \in DOMAIN last.calls : j > i => StepOf(last.calls, j) = StepOf(last.calls, i)

\* C35, amended: a pass takes the steps in the fixed order and ends with the
\* step in which it first wrote (created, patched or deleted), so it creates
\* or patches children of at most one kind, issues no call on RoleBindings
\* after writing a Role and prunes only when no earlier step wrote.  When it
\* created or patched something and returns no error, the result is Updated
\* for ClusterRole, ClusterRoleBinding and Roles, and for RoleBindings the
\* result of the last binding written: Created when that binding was
\* created.  A pass that returns an error returns Noop, also when an earlier
\* entry of the same step was created or patched.
C35_OneStepWrites ==
  last.op = "ensureRolesAndClusterRoles" =>
    /\ InOrder(last.calls)
    /\ Cardinality(KindsWritten(last.calls)) <= 1
    /\ \A i \in Writes(last.calls) :
         \A j \in DOMAIN last.calls : j > i => StepOf(last.calls, j) = StepOf(last.calls, i)
    /\ last.err # NoErr => last.res = "Noop"
    /\ (last.err = NoErr /\ CreatedOrUpdated(last.calls) = {}) => last.res = "Noop"
    /\ (last.err = NoErr /\ CreatedOrUpdated(last.calls) # {}) =>
         LET w == CHOOSE i \in CreatedOrUpdated(last.calls) :
                    \A j \in CreatedOrUpdated(last.calls) : j <= i
         IN  last.res = IF last.calls[w].kind = "RoleBinding" /\ last.calls[w].verb = "create"
                        THEN "Created" ELSE "Updated"

\* A pass has just created the RoleBindings of two namespaces, returned
\* Created and did not prune.
C35_RoleBindingsCreated ==
  /\ last.op = "ensureRolesAndClusterRoles" /\ last.err = NoErr /\ last.res = "Created"
  /\ Cardinality({i \in CreatedOrUpdated(last.calls) : last.calls[i].kind = "RoleBinding"}) = 2
  /\ \A i \in DOMAIN last.calls : StepOf(last.calls, i) # 5

\* ------------------------------------------------------------------ C36

\* Passes of ensureRolesAndClusterRoles while the validated watch namespaces
\* change: a namespace is removed from the list, the mode changes from List
\* to All (the empty set) and back.
NextPrune ==
  \/ EnsureRolesAndClusterRoles
  \/ SetWatch

SpecPrune == InitRBAC /\ [][NextPrune]_vars

\* The Roles and RoleBindings of p in namespaces outside its watch set.
Outdated(S, p) ==
  {o \in S : /\ o.kind \in {"Role", "RoleBinding"} /\ o.owner = p
             /\ o.ns \notin Range(watch[p])}

\* No parent has a Role or a RoleBinding outside its watch set.
Pruned == \A p \in DOMAIN cps : Outdated(store, p) = {}

\* No parent with a watch list has a Role or a RoleBinding outside it.
PrunedForLists == \A p \in DOMAIN cps : watch[p] # <<>> => Outdated(store, p) = {}

\* A pass of ensureRolesAndClusterRoles for p in the current state has nothing
\* left to do: it returns Noop with no error and writes nothing, so the
\* reconciliation of p rests until its inputs change.
AtRest(p) == Quiet(ensureRolesAndClusterRoles(Now, cps[p], p, watch[p]))

\* Once the passes have settled for a parent with a watch list, no Role and no
\* RoleBinding of that parent is left outside the list.
AtRestPrunedForLists ==
  \A p \in DOMAIN cps : (watch[p] # <<>> /\ AtRest(p)) => Outdated(store, p) = {}

\* C36: for every validated watch set, the empty set of watch mode All
\* included, the re-invoked passes of ensureRolesAndClusterRoles come to rest
\* only when no Role and no RoleBinding of the parent is left in a namespace
\* outside the watch set: a state in which a pass has nothing left to do has
\* no such object.
C36_PruningLiveness ==
  \A p \in DOMAIN cps : AtRest(p) => Outdated(store, p) = {}

\* ------------------------------------------------------------------ C37

\* C37: when the dataplane reference is set and the spec declares no replica
\* count (nil), an ensureDeployment pass that returns no error over the one
\* Deployment that was pinned to 0 replicas while there was no dataplane
\* does not leave it at 0 replicas.
C37_UndeclaredReplicasRestored ==
  \A p \in DOMAIN cps, enforce \in BOOLEAN :
    LET r == ensureDeployment(Now, cps[p], p, enforce) IN
    ( /\ Cardinality(TheDeployments(store, p)) = 1
      /\ \A d \in TheDeployments(store, p) : Pinned(d)
      /\ cps[p].dataplane /\ cps[p].replicas = {}
      /\ r.ctx.err = NoErr )
    => /\ TheDeployments(r.ctx.store, p) # {}
       /\ \A e \in TheDeployments(r.ctx.store, p) : e.replicas # {numReplicasWhenNoDataPlane}

\* ------------------------------------------------------------------ C38

\* The admin-mTLS Secrets in a store.
AdminSecrets(S) == {o \in S : o.kind = "Secret" /\ o.body = ControlPlaneServiceKindAdmin}

\* C38: a pass of ensureAdmissionWebhookCertificateSecret with the admission
\* webhook disabled, whichever of its store calls fails, deletes only
\* Secrets that carry the webhook usage label and the owner markers of the
\* parent: every admin-mTLS Secret, the parent's included, is in the store
\* unchanged after the pass, and no admin-mTLS Secret is added.  The pass
\* just made deleted only webhook Secrets of its parent.
C38_UsagesNotShared ==
  /\ \A p \in DOMAIN cps :
       ~isAdmissionWebhookEnabled(cps[p]) =>
         \A failAt \in 0..(Cardinality(WebhookSecrets(p)) + 1) :
           LET r == ensureAdmissionWebhookCertificateSecret(
                      Ctx(store, nextId, failAt), cps[p], p)
           IN  /\ AdminSecrets(r.ctx.store) = AdminSecrets(store)
               /\ store \ r.ctx.store \subseteq WebhookSecrets(p)
               /\ r.ctx.store \subseteq store
  /\ last.op = "ensureAdmissionWebhookCertificateSecret" =>
       \A i \in DOMAIN last.calls :
         last.calls[i].verb = "delete" /\ last.calls[i].old # NoObj =>
           /\ last.calls[i].old.body = ControlPlaneServiceKindWebhook
           /\ last.calls[i].old.owner = last.p

\* A pass with the webhook disabled has just deleted the webhook Secrets of
\* a parent whose admin-mTLS Secret, issued before, is still in the store.
C38_AdminSecretKept ==
  /\ last.op = "ensureAdmissionWebhookCertificateSecret"
  /\ last.res = "Deleted" /\ last.err = NoErr
  /\ ~isAdmissionWebhookEnabled(cps[last.p])
  /\ WebhookSecrets(last.p) = {}
  /\ \E s \in AdminSecrets(store) : s.owner = last.p

\* ------------------------------------------------------------------ cleanup on ControlPlane deletion

\* What ensureOwned*Deleted returns: deletions (Deleted is true, Noop is
\* false) and, in the pass, the joined errors ("" is nil).
CleanupRet(c, deleted, errs) ==
  [ctx |-> IF errs = {} THEN c ELSE Fail(c, "failed deleting"),
   res |-> IF deleted THEN "Deleted" ELSE "Noop", name |-> 0, errs |-> errs]

\* r.Delete of a listed object: it fails and the object stays (old and new
\* are the object), it is NotFound because the object went away after the
\* listing (old and new are none), or it deletes the object.
DeleteListed(c, o, failing, gone) ==
  CASE o \in failing -> Logged(c, Call("delete", o.kind, o.ns, o.id, o, o))
    [] o \in gone -> [Logged(c, Call("delete", o.kind, o.ns, o.id, NoObj, NoObj)) EXCEPT
                        !.store = @ \ {o}]
    [] OTHER -> Delete(c, o)

\* The loop returning at the first delete that fails.
RECURSIVE deleteLoopStopping(_, _, _, _, _, _)
deleteLoopStopping(c, children, deleted, errs, failing, gone) ==
  IF children = {} \/ errs # {}
  THEN CleanupRet(c, deleted, errs)
  ELSE LET o == Oldest(children) IN
       IF o \in failing
       THEN deleteLoopStopping(DeleteListed(c, o, failing, gone), children \ {o}, deleted,
                               errs \cup {o.id}, failing, gone)
       ELSE deleteLoopStopping(DeleteListed(c, o, failing, gone), children \ {o}, TRUE,
                               errs, failing, gone)

\* Lines 942-950, 973-981, 1001-1008: every listed object is deleted; an
\* error other than NotFound is collected and the loop continues.
RECURSIVE deleteLoop(_, _, _, _, _, _)
deleteLoop(c, children, deleted, errs, failing, gone) ==
  IF children = {}
  THEN CleanupRet(c, deleted, errs)
  ELSE LET o == Oldest(children) IN
       IF o \in failing
       THEN deleteLoop(DeleteListed(c, o, failing, gone), children \ {o}, deleted,
                       errs \cup {o.id}, failing, gone)
       ELSE deleteLoop(DeleteListed(c, o, failing, gone), children \ {o}, TRUE,
                       errs, failing, gone)

\* The three operations list the objects of their kind that carry the
\* owner's label set and run the loop; c0.failAt = 1 is a failing listing.
ensureOwnedDeleted(c0, kind, p, failing, gone) ==
  LET l == List(c0, kind, p, NoNs) IN
  IF l.ctx.err # NoErr
  THEN [ctx |-> l.ctx, res |-> "Noop", name |-> 0, errs |-> {}]
  ELSE deleteLoop(l.ctx, l.items, FALSE, {}, failing, gone)

\* Reconciler.ensureOwnedClusterRolesDeleted, lines 925-952.
ensureOwnedClusterRolesDeleted(c0, p, failing, gone) ==
  ensureOwnedDeleted(c0, "ClusterRole", p, failing, gone)

\* Reconciler.ensureOwnedClusterRoleBindingsDeleted, lines 957-983.
ensureOwnedClusterRoleBindingsDeleted(c0, p, failing, gone) ==
  ensureOwnedDeleted(c0, "ClusterRoleBinding", p, failing, gone)

\* Reconciler.ensureOwnedValidatingWebhookConfigurationDeleted, lines 985-1009.
ensureOwnedValidatingWebhookConfigurationDeleted(c0, p, failing, gone) ==
  ensureOwnedDeleted(c0, "ValidatingWebhookConfiguration", p, failing, gone)

\* The ways the deletes of a listing may go: some fail, some others are
\* NotFound.
DeleteOutcomes(listed) ==
  {[failing |-> f, gone |-> g] : f \in SUBSET listed, g \in SUBSET listed} 

\* A cleanup pass takes place: the listing fails, or the deletes go one of
\* the ways; anything but plain success is a disturbance.
Cleanup(op, kind, p) ==
  \/ /\ env < MaxEnv
     /\ Pass(op, p, [NoArgs EXCEPT !.failAt = 1],
             ensureOwnedDeleted(Ctx(store, nextId, 1), kind, p, {}, {}))
  \/ \E out \in DeleteOutcomes(Select(store, kind, p, NoNs)) :
       /\ out.failing \cap out.gone = {}
       /\ (out.failing \cup out.gone # {}) => env < MaxEnv
       /\ Pass(op, p, [NoArgs EXCEPT !.failAt = IF out.failing \cup out.gone # {} THEN 2 ELSE 0],
               ensureOwnedDeleted(Ctx(store, nextId, 0), kind, p, out.failing, out.gone))

EnsureOwnedClusterRolesDeleted ==
  /\ family = "RBAC"
  /\ \E p \in DOMAIN cps : Cleanup("ensureOwnedClusterRolesDeleted", "ClusterRole", p)

EnsureOwnedClusterRoleBindingsDeleted ==
  /\ family = "RBAC"
  /\ \E p \in DOMAIN cps :
       Cleanup("ensureOwnedClusterRoleBindingsDeleted", "ClusterRoleBinding", p)

EnsureOwnedValidatingWebhookConfigurationDeleted ==
  /\ family = "ValidatingWebhookConfiguration"
  /\ \E p \in DOMAIN cps :
       Cleanup("ensureOwnedValidatingWebhookConfigurationDeleted",
               "ValidatingWebhookConfiguration", p)

\* A ControlPlane whose cluster-scoped children are ensured, duplicated
\* out-of-band and cleaned up.
InitCleanup ==
  \E f \in {"RBAC", "ValidatingWebhookConfiguration"} : InitFamily(f, {"cp1"}, <<>>)

NextCleanup ==
  \/ EnsureRolesAndClusterRoles
  \/ EnsureValidatingWebhookConfiguration
  \/ ExternalDuplicate
  \/ EnsureOwnedClusterRolesDeleted
  \/ EnsureOwnedClusterRoleBindingsDeleted
  \/ EnsureOwnedValidatingWebhookConfigurationDeleted

SpecCleanup == InitCleanup /\ [][NextCleanup]_vars

\* ------------------------------------------------------------------ C39

CleanupKinds == {"ClusterRole", "ClusterRoleBinding", "ValidatingWebhookConfiguration"}

\* The objects a pass tried to delete.
DeleteAttempts(calls) == {calls[i].n : i \in {j \in DOMAIN calls : calls[j].verb = "delete"}}

\* C39: a cleanup pass whose listing succeeds attempts to delete every owned
\* object of the kind, also after a delete has failed; it returns a nil
\* error exactly when every delete succeeded or was NotFound; it reports
\* deletions when a delete succeeded or was NotFound; it removes the objects
\* whose delete did not fail and nothing else.  After a nil-error pass no owned object of the
\* kind remains and a repeated pass lists nothing, attempts no delete and
\* returns no deletions and no error.  A pass whose listing fails returns
\* the error and no deletions and deletes nothing.
C39_CleanupOnDeletion ==
  \A kind \in CleanupKinds, p \in DOMAIN cps :
    LET listed == Select(store, kind, p, NoNs) IN
    /\ \A out \in DeleteOutcomes(listed) :
         out.failing \cap out.gone = {} =>
           LET r == ensureOwnedDeleted(Now, kind, p, out.failing, out.gone)
               again == ensureOwnedDeleted(After(r), kind, p, {}, {})
           IN  /\ DeleteAttempts(r.ctx.calls) = {o.id : o \in listed}
               /\ (r.ctx.err = NoErr) <=> (out.failing = {})
               /\ (r.res = "Deleted") <=> (listed \ out.failing # {})
               /\ r.ctx.store = store \ (listed \ out.failing)
               /\ r.ctx.err = NoErr =>
                    /\ Select(r.ctx.store, kind, p, NoNs) = {}
                    /\ again.res = "Noop" /\ again.ctx.err = NoErr
                    /\ DeleteAttempts(again.ctx.calls) = {}
    /\ LET r == ensureOwnedDeleted(Ctx(store, nextId, 1), kind, p, {}, {}) IN
       r.ctx.err # NoErr /\ r.res = "Noop" /\ r.ctx.store = store

\* A cleanup pass has just failed to delete one ClusterRole, deleted another
\* after it and returned the error with deletions reported.
C39_DeletedAfterFailure ==
  /\ last.op = "ensureOwnedClusterRolesDeleted"
  /\ last.err # NoErr /\ last.res = "Deleted"
  /\ \E i, j \in DOMAIN last.calls :
       /\ i < j
       /\ last.calls[i].verb = "delete" /\ last.calls[i].new # NoObj
       /\ last.calls[j].verb = "delete" /\ last.calls[j].old # NoObj
       /\ last.calls[j].new = NoObj
       /\ last.calls[i].new \in store
       /\ last.calls[j].old \notin store

\* ------------------------------------------------------------------ C40

\* C40: sanitizeCert is idempotent: for every certificate text, applying it
\* to its own output returns that output unchanged.
C40_Idempotent ==
  /\ sanitizeCert(sanitizeCert(cert)) = sanitizeCert(cert)
  /\ reply.op = "sanitizeCert" => sanitizeCert(reply.out) = reply.out

====
